---------------------------- MODULE Spec2Model ----------------------------
(***************************************************************************)
(* A model of the cover-letter backend: the skills matcher                 *)
(* (backend/models/skills_matcher.py) and the cover letter generator       *)
(* (backend/models/cover_letter_generator.py).                             *)
(*                                                                         *)
(* Python strings are TLA+ strings; the character-level operations         *)
(* (str.lower, the `in` substring test, difflib.SequenceMatcher) work on   *)
(* the sequence of one-character strings Chars(s).  Python floats that are *)
(* quotients of two lengths are kept as exact fractions <<num, den>>, and  *)
(* a percentage rounded to one decimal is kept as an integer number of     *)
(* tenths (66.7 is 667).                                                   *)
(***************************************************************************)
EXTENDS Integers, Sequences, FiniteSets, TLC

VARIABLES
    \* ---- SkillsMatcher: one call of get_skill_analysis
    resume_skills,      \* the candidate skill list passed in
    job_requirements,   \* the required skill list passed in
    analysis,           \* the dict returned, NoResult before the call
    \* ---- CoverLetterGenerator: one call of generate_cover_letter
    gemini_api_key,     \* self.gemini_api_key, read once in __init__
    pc,                 \* position of the call: idle, provider, returned
    request,            \* the arguments of the call in progress
    prompt,             \* the prompt built by the template
    provider,           \* the generative service: none, pending, hung
    provider_calls,     \* invocations of generate_content in this call
    failure,            \* what raised inside the try block, None if nothing
    result,             \* the dict returned, NoResult before the return
    \* ---- ResumeParser and JobAnalyzer: the calls of one process
    hash_seed,          \* the hash seed of the process, fixed at its start
    resume_parser,      \* the attributes of the shared ResumeParser
    job_analyzer,       \* the attributes of the shared JobAnalyzer
    calls,              \* the calls made so far: operation, text and result
    \* ---- the HTTP handlers: one request
    http_request,       \* the request handled, NoHttpRequest before it arrives
    temp_dir,           \* the directory of mkdtemp: none, exists, removed
    trace,              \* the calls the handler made on the components
    response            \* the response sent, NoResponse before the return

matcherVars == <<resume_skills, job_requirements, analysis>>
generatorVars == <<gemini_api_key, pc, request, prompt, provider,
                   provider_calls, failure, result>>
parserVars == <<hash_seed, resume_parser, job_analyzer, calls>>
handlerVars == <<http_request, temp_dir, trace, response>>
vars == <<resume_skills, job_requirements, analysis, gemini_api_key, pc,
          request, prompt, provider, provider_calls, failure, result,
          hash_seed, resume_parser, job_analyzer, calls,
          http_request, temp_dir, trace, response>>
\* What a step of one component leaves alone.
beyondMatcher == <<generatorVars, parserVars, handlerVars>>
beyondGenerator == <<matcherVars, parserVars, handlerVars>>
beyondParser == <<matcherVars, generatorVars, handlerVars>>
beyondHandlers == <<matcherVars, generatorVars, parserVars>>

\* Python's None, distinct from every string the model uses (str(None) is
\* the text "None", see Fmt).
None == "<None>"
\* No dict returned yet.
NoResult == [returned |-> FALSE]

-----------------------------------------------------------------------------
(* Strings *)

Chars(s) == [i \in 1..Len(s) |-> SubSeq(s, i, i)]

UpperCase == Chars("ABCDEFGHIJKLMNOPQRSTUVWXYZ")
LowerCase == Chars("abcdefghijklmnopqrstuvwxyz")

LowerChar(c) ==
    IF \E i \in 1..Len(UpperCase) : UpperCase[i] = c
    THEN LowerCase[CHOOSE i \in 1..Len(UpperCase) : UpperCase[i] = c]
    ELSE c

\* cs[lo] + ... + cs[hi] for a list of strings
RECURSIVE ConcatRange(_, _, _)
ConcatRange(cs, lo, hi) ==
    IF lo > hi THEN ""
    ELSE IF lo = hi THEN cs[lo]
    ELSE LET mid == (lo + hi) \div 2
         IN  ConcatRange(cs, lo, mid) \o ConcatRange(cs, mid + 1, hi)

\* str.lower()
lower(s) == ConcatRange([i \in 1..Len(s) |-> LowerChar(SubSeq(s, i, i))], 1, Len(s))

\* s.startswith(p)
StartsWith(s, p) == Len(s) >= Len(p) /\ SubSeq(s, 1, Len(p)) = p

\* sub in s, for two strings
Contains(sub, s) ==
    \E i \in 1..(Len(s) - Len(sub) + 1) : SubSeq(s, i, i + Len(sub) - 1) = sub

\* x in xs, for a list
InList(x, xs) == \E i \in 1..Len(xs) : xs[i] = x

\* sep.join(xs)
RECURSIVE Join(_, _)
Join(xs, sep) ==
    IF xs = <<>> THEN ""
    ELSE IF Len(xs) = 1 THEN xs[1]
    ELSE xs[1] \o sep \o Join(Tail(xs), sep)

\* xs[:n]
Take(xs, n) == SubSeq(xs, 1, IF Len(xs) < n THEN Len(xs) ELSE n)

-----------------------------------------------------------------------------
(* difflib.SequenceMatcher(None, a, b).ratio(), for strings shorter than   *)
(* 200 characters (no element is treated as junk below that length).       *)

\* Length of the longest common run of a[i..ahi-1] and b[j..bhi-1] that
\* starts at i and j.
RECURSIVE RunLen(_, _, _, _, _, _)
RunLen(a, b, i, j, ahi, bhi) ==
    IF i < ahi /\ j < bhi /\ a[i] = b[j]
    THEN 1 + RunLen(a, b, i + 1, j + 1, ahi, bhi)
    ELSE 0

\* find_longest_match(alo, ahi, blo, bhi): the block <<i, j, k>> with
\* a[i..i+k-1] = b[j..j+k-1] inside the window, k maximal, then i minimal,
\* then j minimal; <<alo, blo, 0>> when no element matches.
find_longest_match(a, b, alo, ahi, blo, bhi) ==
    LET Blocks == { <<i, j, RunLen(a, b, i, j, ahi, bhi)>> :
                        i \in alo..(ahi - 1), j \in blo..(bhi - 1) }
        Found  == { m \in Blocks : m[3] > 0 }
        Better(m, n) == \/ m[3] > n[3]
                        \/ m[3] = n[3] /\ m[1] < n[1]
                        \/ m[3] = n[3] /\ m[1] = n[1] /\ m[2] <= n[2]
    IN  IF Found = {} THEN <<alo, blo, 0>>
        ELSE CHOOSE m \in Found : \A n \in Found : Better(m, n)

\* The sum of the sizes of get_matching_blocks() over the window: the
\* longest block, then the same to its left and to its right.
RECURSIVE MatchedChars(_, _, _, _, _, _)
MatchedChars(a, b, alo, ahi, blo, bhi) ==
    LET m == find_longest_match(a, b, alo, ahi, blo, bhi)
        i == m[1]
        j == m[2]
        k == m[3]
    IN  IF k = 0 THEN 0
        ELSE k
             + (IF alo < i /\ blo < j
                THEN MatchedChars(a, b, alo, i, blo, j) ELSE 0)
             + (IF i + k < ahi /\ j + k < bhi
                THEN MatchedChars(a, b, i + k, ahi, j + k, bhi) ELSE 0)

\* ratio(): 2.0 * matches / (len(a) + len(b)), and 1.0 for two empty
\* strings; as the fraction <<num, den>>.
ratio(sa, sb) ==
    LET a == Chars(sa)
        b == Chars(sb)
    IN  IF Len(a) + Len(b) = 0 THEN <<1, 1>>
        ELSE <<2 * MatchedChars(a, b, 1, Len(a) + 1, 1, Len(b) + 1),
               Len(a) + Len(b)>>

\* The fraction p is at least tenths/10 (similarity >= 0.8).
AtLeastTenths(p, tenths) == 10 * p[1] >= tenths * p[2]

-----------------------------------------------------------------------------
(* SkillsMatcher *)

\* self.skill_synonyms, in the dict's order: <<main skill, synonyms>>
skill_synonyms == <<
    <<"javascript", <<"js", "node.js", "nodejs">> >>,
    <<"python", <<"py">> >>,
    <<"machine learning", <<"ml", "artificial intelligence", "ai">> >>,
    <<"user interface", <<"ui", "frontend">> >>,
    <<"user experience", <<"ux">> >>,
    <<"database", <<"db", "databases">> >>,
    <<"sql", <<"mysql", "postgresql", "sqlite">> >>,
    <<"cloud computing", <<"aws", "azure", "gcp", "cloud">> >>,
    <<"react", <<"reactjs", "react.js">> >>,
    <<"angular", <<"angularjs", "angular.js">> >>,
    <<"vue", <<"vuejs", "vue.js">> >> >>

\* The default of _check_fuzzy_match's threshold parameter, 0.8, in tenths.
FuzzyThresholdTenths == 8

\* _check_synonym_match, from the n-th item of the dict on: the first group
\* that holds req_skill and has its main skill or a synonym in resume_skills.
RECURSIVE SynonymMatchFrom(_, _, _)
SynonymMatchFrom(n, req_skill, resume_skills_lower) ==
    IF n > Len(skill_synonyms) THEN FALSE
    ELSE LET main_skill == skill_synonyms[n][1]
             synonyms   == skill_synonyms[n][2]
         IN  IF /\ (req_skill = main_skill \/ InList(req_skill, synonyms))
                /\ \/ InList(main_skill, resume_skills_lower)
                   \/ \E k \in 1..Len(synonyms) :
                          InList(synonyms[k], resume_skills_lower)
             THEN TRUE
             ELSE SynonymMatchFrom(n + 1, req_skill, resume_skills_lower)

\* A variant that looks the required skill up as a main skill only.
_check_synonym_match_main_only(req_skill, resume_skills_lower) ==
    \E n \in 1..Len(skill_synonyms) :
        /\ req_skill = skill_synonyms[n][1]
        /\ \E k \in 1..Len(skill_synonyms[n][2]) :
               InList(skill_synonyms[n][2][k], resume_skills_lower)

_check_synonym_match(req_skill, resume_skills_lower) ==
    SynonymMatchFrom(1, req_skill, resume_skills_lower)

\* _check_fuzzy_match, from the n-th resume skill on: the similarity test,
\* then the two substring tests.
RECURSIVE FuzzyMatchFrom(_, _, _)
FuzzyMatchFrom(n, req_skill, resume_skills_lower) ==
    IF n > Len(resume_skills_lower) THEN FALSE
    ELSE LET resume_skill == resume_skills_lower[n]
         IN  IF AtLeastTenths(ratio(req_skill, resume_skill), FuzzyThresholdTenths)
             THEN TRUE
             ELSE IF Contains(req_skill, resume_skill) \/ Contains(resume_skill, req_skill)
             THEN TRUE
             ELSE FuzzyMatchFrom(n + 1, req_skill, resume_skills_lower)

\* A variant without the test that the resume skill is part of the required
\* skill.
_check_fuzzy_match_one_way(req_skill, resume_skills_lower) ==
    \E n \in 1..Len(resume_skills_lower) :
        \/ AtLeastTenths(ratio(req_skill, resume_skills_lower[n]), FuzzyThresholdTenths)
        \/ Contains(req_skill, resume_skills_lower[n])

\* A variant that compares the required skill with the last resume skill
\* only.
_check_fuzzy_match_last_only(req_skill, resume_skills_lower) ==
    /\ resume_skills_lower # <<>>
    /\ LET resume_skill == resume_skills_lower[Len(resume_skills_lower)]
       IN  \/ AtLeastTenths(ratio(req_skill, resume_skill), FuzzyThresholdTenths)
           \/ Contains(req_skill, resume_skill)
           \/ Contains(resume_skill, req_skill)

_check_fuzzy_match(req_skill, resume_skills_lower) ==
    FuzzyMatchFrom(1, req_skill, resume_skills_lower)

\* The body of find_matching_skills's loop for one required skill: which
\* rule appends it ("direct", "synonym", "fuzzy"), or "none".
MatchRule(req_skill, resume_skills_lower) ==
    LET req_skill_lower == lower(req_skill)
    IN  IF InList(req_skill_lower, resume_skills_lower) THEN "direct"
        ELSE IF _check_synonym_match(req_skill_lower, resume_skills_lower) THEN "synonym"
        ELSE IF _check_fuzzy_match(req_skill_lower, resume_skills_lower) THEN "fuzzy"
        ELSE "none"

\* ss[lo] + ... + ss[hi] for a list of lists
RECURSIVE FlattenRange(_, _, _)
FlattenRange(ss, lo, hi) ==
    IF lo > hi THEN <<>>
    ELSE IF lo = hi THEN ss[lo]
    ELSE LET mid == (lo + hi) \div 2
         IN  FlattenRange(ss, lo, mid) \o FlattenRange(ss, mid + 1, hi)

Flatten(ss) == FlattenRange(ss, 1, Len(ss))

\* The loop of find_matching_skills: what each iteration appends, in the
\* order of the required skills.
MatchingFrom(reqs, resume_skills_lower) ==
    Flatten([k \in 1..Len(reqs) |->
                IF MatchRule(reqs[k], resume_skills_lower) # "none"
                THEN <<reqs[k]>> ELSE <<>>])

\* A variant whose rules do not end the iteration: a required skill is
\* appended once for every rule that matches it.
MatchingFromNoContinue(reqs, resume_skills_lower) ==
    Flatten([k \in 1..Len(reqs) |->
                LET req_skill_lower == lower(reqs[k])
                IN  (IF InList(req_skill_lower, resume_skills_lower)
                     THEN <<reqs[k]>> ELSE <<>>)
                    \o (IF _check_synonym_match(req_skill_lower, resume_skills_lower)
                        THEN <<reqs[k]>> ELSE <<>>)
                    \o (IF _check_fuzzy_match(req_skill_lower, resume_skills_lower)
                        THEN <<reqs[k]>> ELSE <<>>)])

find_matching_skills_no_continue(rs, jr) ==
    MatchingFromNoContinue(jr, [i \in 1..Len(rs) |-> lower(rs[i])])

find_matching_skills(rs, jr) ==
    MatchingFrom(jr, [i \in 1..Len(rs) |-> lower(rs[i])])

\* A variant that compares the required skills with the resume list itself
\* instead of the matched list.
get_missing_skills_direct(rs, jr) ==
    LET Missing(skill) == ~InList(skill, rs)
    IN  SelectSeq(jr, Missing)

get_missing_skills(rs, jr) ==
    LET matching_skills == find_matching_skills(rs, jr)
        Missing(skill) == ~InList(skill, matching_skills)
    IN  SelectSeq(jr, Missing)

\* A variant that divides by the number of distinct required skills.
calculate_match_score_distinct(rs, jr) ==
    IF jr = <<>> THEN <<0, 1>>
    ELSE <<Len(find_matching_skills(rs, jr)),
           Cardinality({ jr[i] : i \in 1..Len(jr) })>>

\* The float returned, as the fraction <<matched, required>>; 0.0 is <<0, 1>>.
calculate_match_score(rs, jr) ==
    IF jr = <<>> THEN <<0, 1>>
    ELSE <<Len(find_matching_skills(rs, jr)), Len(jr)>>

technical_keywords == <<
    "programming", "language", "framework", "library", "database", "cloud",
    "devops", "api", "web", "mobile", "software", "system", "network",
    "security", "testing", "deployment", "version control">>

common_technical == <<"python", "java", "javascript", "react", "sql", "aws", "docker">>

soft_keywords == <<
    "communication", "leadership", "teamwork", "problem solving",
    "analytical", "creative", "management", "organization", "time management",
    "adaptability", "collaboration", "presentation", "negotiation">>

\* any(keyword in skill.lower() for keyword in keywords)
AnyKeywordIn(keywords, skill) ==
    LET skill_lower == lower(skill)
    IN  \E k \in 1..Len(keywords) : Contains(keywords[k], skill_lower)

_categorize_technical_skills(skills) ==
    LET Technical(skill) == \/ AnyKeywordIn(technical_keywords, skill)
                            \/ AnyKeywordIn(common_technical, skill)
    IN  SelectSeq(skills, Technical)

_categorize_soft_skills(skills) ==
    LET Soft(skill) == AnyKeywordIn(soft_keywords, skill)
    IN  SelectSeq(skills, Soft)

\* The fraction p compared with tenths/10.
LessThanTenths(p, tenths) == 10 * p[1] < tenths * p[2]
MoreThanTenths(p, tenths) == 10 * p[1] > tenths * p[2]

\* The bands of _generate_recommendations, in tenths of the 0..1 score.
LowBandTenths == 3
MidBandTenths == 6
ExcellentTenths == 8
\* missing_skills[:3]
TopMissing == 3

_generate_recommendations(missing_skills, match_score) ==
    (IF LessThanTenths(match_score, LowBandTenths)
     THEN <<"Consider gaining more of the required skills before applying">>
     ELSE IF LessThanTenths(match_score, MidBandTenths)
     THEN <<"You have some matching skills. Consider highlighting transferable experience">>
     ELSE <<"Strong skill match! Emphasize your relevant experience">>)
    \o (IF missing_skills # <<>>
        THEN <<"Consider learning: " \o Join(Take(missing_skills, TopMissing), ", ")>>
        ELSE <<>>)
    \o (IF MoreThanTenths(match_score, ExcellentTenths)
        THEN <<"Excellent match! You're well-qualified for this position">>
        ELSE <<>>)

\* A variant that cuts the percentage to one decimal instead of rounding it.
RoundPercentTenths_truncate(p) == (1000 * p[1]) \div p[2]

\* round(num / den * 100, 1) in tenths of a percent: the nearest tenth, a tie
\* going to the even one.
RoundPercentTenths(p) ==
    LET n == 1000 * p[1]
        q == n \div p[2]
        r == n % p[2]
    IN  IF 2 * r > p[2] THEN q + 1
        ELSE IF 2 * r < p[2] THEN q
        ELSE IF q % 2 = 0 THEN q ELSE q + 1

\* A variant that counts the distinct required skills as total_required.
get_skill_analysis_distinct_total(rs, jr) ==
    LET matching_skills == find_matching_skills(rs, jr)
        missing_skills  == get_missing_skills(rs, jr)
        match_score     == calculate_match_score(rs, jr)
    IN  [returned         |-> TRUE,
         match_score      |-> RoundPercentTenths(match_score),
         matching_skills  |-> matching_skills,
         missing_skills   |-> missing_skills,
         total_required   |-> Cardinality({ jr[i] : i \in 1..Len(jr) }),
         total_matched    |-> Len(matching_skills),
         technical_skills |-> _categorize_technical_skills(matching_skills),
         soft_skills      |-> _categorize_soft_skills(matching_skills),
         recommendations  |-> _generate_recommendations(missing_skills, match_score)]

get_skill_analysis(rs, jr) ==
    LET matching_skills == find_matching_skills(rs, jr)
        missing_skills  == get_missing_skills(rs, jr)
        match_score     == calculate_match_score(rs, jr)
    IN  [returned         |-> TRUE,
         match_score      |-> RoundPercentTenths(match_score),
         matching_skills  |-> matching_skills,
         missing_skills   |-> missing_skills,
         total_required   |-> Len(jr),
         total_matched    |-> Len(matching_skills),
         technical_skills |-> _categorize_technical_skills(matching_skills),
         soft_skills      |-> _categorize_soft_skills(matching_skills),
         recommendations  |-> _generate_recommendations(missing_skills, match_score)]

-----------------------------------------------------------------------------
(* The inputs of a get_skill_analysis call *)

\* Longest candidate list and longest required list drawn from SkillUniverse.
MaxResume == 2
MaxRequired == 3

SkillUniverse == {"Python", "python", "py", "AWS"}

ListsUpTo(S, n) == UNION { [1..k -> S] : k \in 0..n }

SetOf(xs) == { xs[i] : i \in 1..Len(xs) }

\* The members of the n-th synonym group: the main skill and its synonyms.
Members(n) == {skill_synonyms[n][1]} \cup SetOf(skill_synonyms[n][2])

UpperChar(c) ==
    IF \E i \in 1..Len(LowerCase) : LowerCase[i] = c
    THEN UpperCase[CHOOSE i \in 1..Len(LowerCase) : LowerCase[i] = c]
    ELSE c

RECURSIVE UpperFrom(_, _)
UpperFrom(s, i) ==
    IF i > Len(s) THEN "" ELSE UpperChar(SubSeq(s, i, i)) \o UpperFrom(s, i + 1)

\* str.upper()
upper(s) == UpperFrom(s, 1)

\* Every pair of members of one synonym group, one as the only candidate
\* skill and one as the only required skill, in lower and in upper case.
SynonymInputs ==
    UNION { { <<<<b>>, <<a>>>>, <<<<upper(b)>>, <<a>>>>, <<<<b>>, <<upper(a)>>>> } :
            <<a, b>> \in UNION { Members(n) \X Members(n) :
                                   n \in 1..Len(skill_synonyms) } }

\* The example of the design document, inputs for the substring and
\* similarity rules, an empty skill, and required skills that several rules
\* match.
ExampleInputs == {
    <<<<"Python", "SQL">>, <<"Python", "AWS", "SQL">>>>,
    <<<<"SQL", "Python">>, <<"Python", "AWS", "SQL">>>>,
    <<<<"JavaScript">>, <<"Java">>>>,
    <<<<"Java">>, <<"JavaScript">>>>,
    <<<<"PostgreSQL">>, <<"Postgre SQL">>>>,
    <<<<"Postgre SQL">>, <<"PostgreSQL">>>>,
    <<<<"Postgres">>, <<"MySQL", "Postgre">>>>,
    <<<<"Kotlin", "Pithon">>, <<"Python", "Scala">>>>,
    <<<<"Docker">>, <<"Rocker", "Dock", "Podman">>>>,
    <<<<"">>, <<"Go", "Rust">>>>,
    <<<<"Go">>, <<"", "Rust">>>>,
    <<<<"sql", "PostgreSQL">>, <<"AWS", "SQL", "MySQL", "sql">>>>,
    <<<<"Leadership", "REST API design">>, <<"Team Leadership", "API", "Kubernetes", "Terraform">>>> }

\* matched copies of a skill of the resume followed by missing copies of a
\* skill that no rule matches with it.
RequiredList(matched, missing) ==
    [i \in 1..(matched + missing) |-> IF i <= matched THEN "Python" ELSE "AWS"]

\* Required lists long enough for a share to lie within 0.05 points of a band
\* limit without being on it: 62 of 207 (29.951..%), 241 of 402 (59.950..%),
\* 321 of 401 (80.049..%), and 60 of 200 (30%) on the limit itself.
RoundingInputs == {
    <<<<"Python">>, RequiredList(62, 145)>>,
    <<<<"Python">>, RequiredList(241, 161)>>,
    <<<<"Python">>, RequiredList(321, 80)>>,
    <<<<"Python">>, RequiredList(60, 140)>> }

MatcherInputs ==
    (ListsUpTo(SkillUniverse, MaxResume) \X ListsUpTo(SkillUniverse, MaxRequired))
    \cup SynonymInputs \cup ExampleInputs \cup RoundingInputs

-----------------------------------------------------------------------------
(* CoverLetterGenerator: dicts are functions from their keys, lists are    *)
(* sequences, texts are strings.                                           *)

\* {}
EmptyDict == <<>>

\* d.get(key, default): the default only when the key is absent.
Get(d, key, default) == IF key \in DOMAIN d THEN d[key] ELSE default

\* d.get(key)
GetOrNone(d, key) == Get(d, key, None)

\* The truth value of a string or None in a condition.
Truthy(v) == v # None /\ v # ""

\* A value interpolated in an f-string.
Fmt(v) == IF v = None THEN "None" ELSE v

\* s[:n]
Prefix(s, n) == SubSeq(s, 1, IF Len(s) < n THEN Len(s) ELSE n)

\* The slices of the prompts and of the fallback letter.
FallbackSkills == 5
PromptSkills == 8
PromptResponsibilities == 5
PromptExperience == 3
PromptProjects == 3
ExperienceChars == 100
ProjectChars == 80

_format_experience_for_prompt(experience) ==
    IF experience = <<>> THEN "No professional experience listed"
    ELSE LET top == Take(experience, PromptExperience)
             Entry(exp) ==
                 Fmt(Get(exp, "title", "Position")) \o " at "
                 \o Fmt(Get(exp, "company", "Company")) \o ": "
                 \o Prefix(Get(exp, "description", "Professional experience"),
                           ExperienceChars)
         IN  Join([i \in 1..Len(top) |-> Entry(top[i])], "; ")

_format_projects_for_prompt(projects) ==
    IF projects = <<>> THEN "No projects listed"
    ELSE LET top == Take(projects, PromptProjects)
             Entry(project) ==
                 Fmt(Get(project, "name", "Project")) \o ": "
                 \o Prefix(Get(project, "description", "Project work"), ProjectChars)
         IN  Join([i \in 1..Len(top) |-> Entry(top[i])], "; ")

_format_education_for_prompt(education) ==
    IF education = <<>> THEN "Education information not specified"
    ELSE LET Entry(edu) ==
                 Fmt(Get(edu, "degree", "Degree")) \o " from "
                 \o Fmt(Get(edu, "institution", "Institution"))
         IN  Join([i \in 1..Len(education) |-> Entry(education[i])], "; ")

\* The line of a prompt that carries the custom message, empty without one.
CustomLine(label, custom_message) ==
    IF Truthy(custom_message) THEN label \o custom_message ELSE ""

_professional_template(resume_data, job_data, custom_message) ==
    LET name == Get(Get(resume_data, "contact_info", EmptyDict), "name", "Applicant")
        job_title == Get(job_data, "job_title", "the position")
        company_name == Get(Get(job_data, "company_info", EmptyDict), "name", "your company")
        skills == Take(Get(resume_data, "skills", <<>>), PromptSkills)
        experience == Get(resume_data, "experience", <<>>)
        required_skills == Get(job_data, "required_skills", <<>>)
        responsibilities == Take(Get(job_data, "responsibilities", <<>>), PromptResponsibilities)
    IN  "\nCreate a professional cover letter for " \o Fmt(name)
        \o " applying for the " \o Fmt(job_title) \o " position at "
        \o Fmt(company_name) \o ".\n\n"
        \o "RESUME INFORMATION:\n"
        \o "- Skills: " \o Join(skills, ", ") \o "\n"
        \o "- Experience: " \o _format_experience_for_prompt(experience) \o "\n"
        \o "- Summary: " \o Fmt(Get(resume_data, "summary", "Experienced professional")) \o "\n\n"
        \o "JOB REQUIREMENTS:\n"
        \o "- Required Skills: " \o Join(required_skills, ", ") \o "\n"
        \o "- Key Responsibilities: " \o Join(responsibilities, "; ") \o "\n"
        \o "- Company: "
        \o Fmt(Get(Get(job_data, "company_info", EmptyDict), "description", "A leading company"))
        \o "\n\n"
        \o CustomLine("CUSTOM MESSAGE TO INCLUDE: ", custom_message) \o "\n\n"
        \o "INSTRUCTIONS:\n"
        \o "1. Write a professional, engaging cover letter\n"
        \o "2. Highlight relevant skills that match job requirements\n"
        \o "3. Show enthusiasm for the role and company\n"
        \o "4. Include specific examples from experience when possible\n"
        \o "5. Keep it concise (3-4 paragraphs)\n"
        \o "6. Use professional tone throughout\n"
        \o "7. End with a strong call to action\n\n"
        \o "Generate the cover letter now:\n"

_creative_template(resume_data, job_data, custom_message) ==
    LET name == Get(Get(resume_data, "contact_info", EmptyDict), "name", "Creative Professional")
        job_title == Get(job_data, "job_title", "the position")
        company_name == Get(Get(job_data, "company_info", EmptyDict), "name",
                            "your innovative company")
    IN  "\nCreate a creative and engaging cover letter for " \o Fmt(name)
        \o " applying for the " \o Fmt(job_title) \o " position at "
        \o Fmt(company_name) \o ".\n\n"
        \o "RESUME INFORMATION:\n"
        \o "- Skills: " \o Join(Take(Get(resume_data, "skills", <<>>), PromptSkills), ", ") \o "\n"
        \o "- Projects: " \o _format_projects_for_prompt(Get(resume_data, "projects", <<>>)) \o "\n"
        \o "- Experience: " \o _format_experience_for_prompt(Get(resume_data, "experience", <<>>))
        \o "\n\n"
        \o "JOB INFORMATION:\n"
        \o "- Position: " \o Fmt(job_title) \o "\n"
        \o "- Company: " \o Fmt(company_name) \o "\n"
        \o "- Required Skills: " \o Join(Get(job_data, "required_skills", <<>>), ", ") \o "\n\n"
        \o CustomLine("CUSTOM MESSAGE: ", custom_message) \o "\n\n"
        \o "INSTRUCTIONS:\n"
        \o "1. Use a creative, engaging tone while remaining professional\n"
        \o "2. Start with an attention-grabbing opening\n"
        \o "3. Tell a compelling story about relevant experience\n"
        \o "4. Show personality and passion for the field\n"
        \o "5. Demonstrate creativity in presentation\n"
        \o "6. Keep it engaging but concise\n"
        \o "7. End with memorable closing\n\n"
        \o "Generate a creative cover letter now:\n"

\* The names the technical template looks for in a skill.
technical_names == <<"python", "java", "javascript", "sql", "aws", "docker",
                     "react", "angular", "node">>

_technical_template(resume_data, job_data, custom_message) ==
    LET IsTechnical(skill) == AnyKeywordIn(technical_names, skill)
        technical_skills == SelectSeq(Get(resume_data, "skills", <<>>), IsTechnical)
    IN  "\nCreate a technical cover letter for a "
        \o Fmt(Get(job_data, "job_title", "technical position")) \o " at "
        \o Fmt(Get(Get(job_data, "company_info", EmptyDict), "name", "the company"))
        \o ".\n\n"
        \o "TECHNICAL BACKGROUND:\n"
        \o "- Technical Skills: " \o Join(technical_skills, ", ") \o "\n"
        \o "- All Skills: " \o Join(Get(resume_data, "skills", <<>>), ", ") \o "\n"
        \o "- Experience: " \o _format_experience_for_prompt(Get(resume_data, "experience", <<>>))
        \o "\n"
        \o "- Projects: " \o _format_projects_for_prompt(Get(resume_data, "projects", <<>>))
        \o "\n\n"
        \o "JOB REQUIREMENTS:\n"
        \o "- Required Technical Skills: "
        \o Join(Get(job_data, "required_skills", <<>>), ", ") \o "\n"
        \o "- Responsibilities: "
        \o Join(Take(Get(job_data, "responsibilities", <<>>), PromptResponsibilities), "; ")
        \o "\n\n"
        \o CustomLine("ADDITIONAL CONTEXT: ", custom_message) \o "\n\n"
        \o "INSTRUCTIONS:\n"
        \o "1. Focus on technical qualifications and achievements\n"
        \o "2. Mention specific technologies and frameworks\n"
        \o "3. Include quantifiable results where possible\n"
        \o "4. Demonstrate problem-solving abilities\n"
        \o "5. Show understanding of technical challenges\n"
        \o "6. Keep professional but show technical depth\n"
        \o "7. Highlight relevant projects or implementations\n\n"
        \o "Generate a technical cover letter now:\n"

_entry_level_template(resume_data, job_data, custom_message) ==
    LET education == Get(resume_data, "education", <<>>)
        projects == Get(resume_data, "projects", <<>>)
    IN  "\nCreate an entry-level cover letter for someone applying for "
        \o Fmt(Get(job_data, "job_title", "the position")) \o " at "
        \o Fmt(Get(Get(job_data, "company_info", EmptyDict), "name", "the company"))
        \o ".\n\n"
        \o "CANDIDATE BACKGROUND:\n"
        \o "- Education: " \o _format_education_for_prompt(education) \o "\n"
        \o "- Skills: " \o Join(Get(resume_data, "skills", <<>>), ", ") \o "\n"
        \o "- Projects: " \o _format_projects_for_prompt(projects) \o "\n"
        \o "- Experience: " \o _format_experience_for_prompt(Get(resume_data, "experience", <<>>))
        \o "\n\n"
        \o "JOB INFORMATION:\n"
        \o "- Position: " \o Fmt(Get(job_data, "job_title", "Entry-level position")) \o "\n"
        \o "- Required Skills: " \o Join(Get(job_data, "required_skills", <<>>), ", ") \o "\n"
        \o "- Company: "
        \o Fmt(Get(Get(job_data, "company_info", EmptyDict), "name", "the company")) \o "\n\n"
        \o CustomLine("PERSONAL MESSAGE: ", custom_message) \o "\n\n"
        \o "INSTRUCTIONS:\n"
        \o "1. Emphasize eagerness to learn and grow\n"
        \o "2. Highlight relevant coursework and projects\n"
        \o "3. Show enthusiasm and passion for the field\n"
        \o "4. Demonstrate quick learning ability\n"
        \o "5. Mention any internships or relevant experience\n"
        \o "6. Focus on potential and transferable skills\n"
        \o "7. Show research about the company\n\n"
        \o "Generate an entry-level cover letter now:\n"

\* A variant without the default of self.templates.get: a style that is no
\* key of self.templates gets no prompt.
BuildPrompt_no_default(template_style, resume_data, job_data, custom_message) ==
    IF template_style = "professional"
    THEN _professional_template(resume_data, job_data, custom_message)
    ELSE IF template_style = "creative"
    THEN _creative_template(resume_data, job_data, custom_message)
    ELSE IF template_style = "technical"
    THEN _technical_template(resume_data, job_data, custom_message)
    ELSE IF template_style = "entry_level"
    THEN _entry_level_template(resume_data, job_data, custom_message)
    ELSE ""

\* self.templates.get(template_style, self.templates['professional']),
\* applied: the prompt of the style's template.
BuildPrompt(template_style, resume_data, job_data, custom_message) ==
    IF template_style = "creative"
    THEN _creative_template(resume_data, job_data, custom_message)
    ELSE IF template_style = "technical"
    THEN _technical_template(resume_data, job_data, custom_message)
    ELSE IF template_style = "entry_level"
    THEN _entry_level_template(resume_data, job_data, custom_message)
    ELSE _professional_template(resume_data, job_data, custom_message)

\* A variant that signs every letter with the default name.
_internal_fallback_cover_letter_unsigned(resume_data, job_data, custom_message) ==
    "Dear Hiring Manager at "
    \o Fmt(Get(Get(job_data, "company_info", EmptyDict), "name", "your company")) \o ",\n\n"
    \o "I am writing to express my interest in the "
    \o Fmt(Get(job_data, "job_title", "the position")) \o " position.\n\n"
    \o "Sincerely,\nApplicant"
    \o (IF Truthy(custom_message) THEN "\n\nP.S.: " \o custom_message ELSE "")

_internal_fallback_cover_letter(resume_data, job_data, custom_message) ==
    LET name == Get(Get(resume_data, "contact_info", EmptyDict), "name", "Applicant")
        job_title == Get(job_data, "job_title", "the position")
        company_name == Get(Get(job_data, "company_info", EmptyDict), "name", "your company")
        skills == Join(Take(Get(resume_data, "skills", <<>>), FallbackSkills), ", ")
        experience == _format_experience_for_prompt(Get(resume_data, "experience", <<>>))
        summary == Get(resume_data, "summary", "a motivated and results-driven professional")
        cover_letter ==
            "Dear Hiring Manager at " \o Fmt(company_name) \o ",\n\n"
            \o "I am writing to express my interest in the " \o Fmt(job_title)
            \o " position at " \o Fmt(company_name) \o ". "
            \o "With a background in " \o experience \o " and skills including "
            \o skills \o ", "
            \o "I am confident in my ability to make a meaningful contribution to your team.\n\n"
            \o Fmt(summary) \o ". "
            \o "I am passionate about driving results and collaborating with talented professionals, "
            \o "and I am eager to bring my expertise and enthusiasm to "
            \o Fmt(company_name) \o ".\n\n"
            \o "I would welcome the opportunity to discuss how my experience and skills align with your needs "
            \o "and how I can contribute to the continued success of your team.\n\n"
            \o "Thank you for considering my application.\n\n"
            \o "Sincerely,\n" \o Fmt(name)
    IN  IF Truthy(custom_message)
        THEN cover_letter \o "\n\nP.S.: " \o custom_message
        ELSE cover_letter

IsSpace(c) == c \in {" ", "\n", "\t", "\r"}

\* str.strip()
strip(s) ==
    LET Inked == { i \in 1..Len(s) : ~IsSpace(SubSeq(s, i, i)) }
    IN  IF Inked = {} THEN ""
        ELSE SubSeq(s, CHOOSE i \in Inked : \A k \in Inked : i <= k,
                       CHOOSE i \in Inked : \A k \in Inked : i >= k)

\* len(s.split()): the number of whitespace-delimited tokens
WordCount(s) ==
    Cardinality({ i \in 1..Len(s) :
                    /\ ~IsSpace(SubSeq(s, i, i))
                    /\ (i = 1 \/ IsSpace(SubSeq(s, i - 1, i - 1))) })

\* s.replace(old, new), for a non-empty old: every occurrence, left to right
RECURSIVE replace(_, _, _)
replace(s, old, new) ==
    IF Len(s) < Len(old) THEN s
    ELSE IF SubSeq(s, 1, Len(old)) = old
    THEN new \o replace(SubSeq(s, Len(old) + 1, Len(s)), old, new)
    ELSE SubSeq(s, 1, 1) \o replace(SubSeq(s, 2, Len(s)), old, new)

\* s.replace(old, new, 1): the first occurrence only
RECURSIVE replace_once(_, _, _)
replace_once(s, old, new) ==
    IF Len(s) < Len(old) THEN s
    ELSE IF SubSeq(s, 1, Len(old)) = old
    THEN new \o SubSeq(s, Len(old) + 1, Len(s))
    ELSE SubSeq(s, 1, 1) \o replace_once(SubSeq(s, 2, Len(s)), old, new)

\* A variant that replaces the first occurrence of a placeholder only.
_post_process_cover_letter_first_only(cover_letter, resume_data, job_data) ==
    LET stripped == strip(cover_letter)
        name == GetOrNone(Get(resume_data, "contact_info", EmptyDict), "name")
        named == IF Truthy(name) /\ Contains("[Your Name]", stripped)
                 THEN replace_once(stripped, "[Your Name]", name)
                 ELSE stripped
        company_name == GetOrNone(Get(job_data, "company_info", EmptyDict), "name")
    IN  IF Truthy(company_name) /\ Contains("[Company Name]", named)
        THEN replace_once(named, "[Company Name]", company_name)
        ELSE named

_post_process_cover_letter(cover_letter, resume_data, job_data) ==
    LET stripped == strip(cover_letter)
        name == GetOrNone(Get(resume_data, "contact_info", EmptyDict), "name")
        named == IF Truthy(name) /\ Contains("[Your Name]", stripped)
                 THEN replace(stripped, "[Your Name]", name)
                 ELSE stripped
        company_name == GetOrNone(Get(job_data, "company_info", EmptyDict), "name")
    IN  IF Truthy(company_name) /\ Contains("[Company Name]", named)
        THEN replace(named, "[Company Name]", company_name)
        ELSE named

SuggestedSkills == 3

\* list(required - resume) for the sets of lower-cased skills: each required
\* skill that is no resume skill, once.  A set has an order of its own,
\* which the program does not control; the model lists the elements in the
\* order of their first occurrence in the required list.
MissingList(resume_lower, required_lower) ==
    LET First(i) == /\ ~InList(required_lower[i], resume_lower)
                    /\ \A k \in 1..(i - 1) : required_lower[k] # required_lower[i]
        Kept == { i \in 1..Len(required_lower) : First(i) }
        Nth(n) == CHOOSE i \in Kept : Cardinality({ k \in Kept : k < i }) = n - 1
    IN  [n \in 1..Cardinality(Kept) |-> required_lower[Nth(n)]]

_generate_improvement_suggestions(resume_data, job_data) ==
    LET rs == Get(resume_data, "skills", <<>>)
        js == Get(job_data, "required_skills", <<>>)
        resume_skills_lower == [i \in 1..Len(rs) |-> lower(rs[i])]
        required_skills_lower == [i \in 1..Len(js) |-> lower(js[i])]
        missing_skills == MissingList(resume_skills_lower, required_skills_lower)
    IN  (IF missing_skills # <<>>
         THEN <<"Consider highlighting experience with: "
                \o Join(Take(missing_skills, SuggestedSkills), ", ")>>
         ELSE <<>>)
        \o (IF Get(resume_data, "experience", <<>>) = <<>>
            THEN <<"Consider adding more specific work experience examples">>
            ELSE <<>>)
        \o (IF Get(resume_data, "education", <<>>) = <<>>
            THEN <<"Ensure educational background is clearly stated">>
            ELSE <<>>)

_build_response(cover_letter_text, template_style, resume_data, job_data) ==
    [returned        |-> TRUE,
     success         |-> TRUE,
     cover_letter    |-> cover_letter_text,
     template_used   |-> template_style,
     word_count      |-> WordCount(cover_letter_text),
     recommendations |-> _generate_improvement_suggestions(resume_data, job_data)]

\* A variant whose fallback path leaves the suggestions out.
FallbackResponse_no_suggestions(req) ==
    [_build_response(
         _internal_fallback_cover_letter(req.resume_data, req.job_data, req.custom_message),
         req.template_style, req.resume_data, req.job_data)
     EXCEPT !.recommendations = <<>>]

\* Lines 48-51: the last resort, the internal fallback letter.
FallbackResponse(req) ==
    _build_response(
        _internal_fallback_cover_letter(req.resume_data, req.job_data, req.custom_message),
        req.template_style, req.resume_data, req.job_data)

-----------------------------------------------------------------------------
(* The inputs of a generate_cover_letter call: profiles of the shape       *)
(* parse_resume and analyze_job_description return, and hand-built dicts   *)
(* that leave keys out.                                                    *)

ResumeJane ==
    [contact_info |-> [email |-> "jane@example.org", phone |-> None,
                       name |-> "Jane Doe", linkedin |-> None, github |-> None],
     skills |-> <<"Python", "Sql", "Docker", "Leadership", "React", "Git",
                  "Agile", "Flask", "Redis">>,
     experience |-> <<
         [title |-> "Senior Developer", company |-> "Initech",
          description |-> "- Led the migration of the billing platform to containers and cut the monthly release time from two weeks to two days"],
         [title |-> "Developer", company |-> "Globex", description |-> ""],
         [title |-> "Junior Developer", company |-> "Hooli",
          description |-> "- Built internal dashboards"],
         [title |-> "Support Analyst", company |-> "Umbrella",
          description |-> "- Answered tickets"]>>,
     education |-> <<[degree |-> "Bachelor in Computer Science",
                      institution |-> "Not specified",
                      field |-> "Computer Science"]>>,
     summary |-> "Backend developer with eight years of experience building data services",
     projects |-> <<
         [name |-> "- Ledger", description |-> "- Ledger"],
         [name |-> "- An open source scheduler for batch jobs with ret...",
          description |-> "- An open source scheduler for batch jobs with retries, priorities, quotas and a web console"],
         [name |-> "- Notes", description |-> "- Notes"],
         [name |-> "- Maps", description |-> "- Maps"]>>]

\* What parse_resume returns when it finds nothing.
ResumeEmpty ==
    [contact_info |-> [email |-> None, phone |-> None, name |-> None,
                       linkedin |-> None, github |-> None],
     skills |-> <<>>, experience |-> <<>>, education |-> <<>>,
     summary |-> "No summary available", projects |-> <<>>]

\* A dict built by a caller, without the optional keys.
ResumeBare ==
    [contact_info |-> [name |-> "Li Wei"], skills |-> <<"Aws", "Excel">>]

ResumeNoContact == [skills |-> <<"Python">>]

Resumes == {ResumeJane, ResumeEmpty, ResumeBare, ResumeNoContact}

JobAcme ==
    [company_info |-> [name |-> "Acme Corp",
                       description |-> "Acme Corp is a logistics company.",
                       industry |-> None],
     job_title |-> "Senior Python Developer",
     required_skills |-> <<"Python", "Aws", "Kubernetes", "Terraform", "Go">>,
     preferred_skills |-> <<"React">>,
     responsibilities |-> <<"Design backend services", "Review code changes",
                            "Mentor junior developers", "Operate the platform",
                            "Write design documents", "Plan the roadmap">>,
     qualifications |-> <<>>, benefits |-> <<>>,
     job_type |-> "Full-Time", experience_level |-> "5 years",
     key_requirements |-> <<>>]

\* What analyze_job_description returns when it finds nothing.
JobEmpty ==
    [company_info |-> [name |-> None, description |-> None, industry |-> None],
     job_title |-> "Position title not specified",
     required_skills |-> <<>>, preferred_skills |-> <<>>,
     responsibilities |-> <<>>, qualifications |-> <<>>, benefits |-> <<>>,
     job_type |-> "Not specified", experience_level |-> "Not specified",
     key_requirements |-> <<>>]

JobBare == [job_title |-> "Data Analyst", required_skills |-> <<"Excel", "SQL">>]

Jobs == {JobAcme, JobEmpty, JobBare}

\* The four styles of self.templates and one that is not among them.
Styles == {"professional", "creative", "technical", "entry_level", "formal"}

CustomMessages == {None, "", "I can start in May."}

\* os.getenv('GEMINI_API_KEY'): unset, set to nothing, set.
ApiKeys == {None, "", "key-123"}

\* response.text of a response that arrives.
ProviderTexts == {
    "Dear [Company Name] team,\n\nI would like to apply.\n\nSincerely,\n[Your Name]",
    "  \nHello, this is [Your Name]. Regards, [Your Name]\n ",
    "Dear Hiring Manager, please consider my application.",
    "",
    " \n " }

\* What can raise inside the try block: generate_content itself, reading
\* response.text, and post-processing a text that is not a string.
FailureKinds == {"generate_content", "response.text", "post_process"}

NoRequest == [resume_data |-> EmptyDict, job_data |-> EmptyDict,
              template_style |-> "", custom_message |-> None]

-----------------------------------------------------------------------------
(* Actions *)

MatcherIdle ==
    /\ resume_skills = <<>>
    /\ job_requirements = <<>>
    /\ analysis = NoResult

GeneratorIdle ==
    /\ pc = "idle"
    /\ request = NoRequest
    /\ prompt = ""
    /\ provider = "none"
    /\ provider_calls = 0
    /\ failure = None
    /\ result = NoResult

\* skills_matcher.get_skill_analysis(resume_skills, job_requirements)
GetSkillAnalysis ==
    /\ analysis = NoResult
    /\ analysis' = get_skill_analysis(resume_skills, job_requirements)
    /\ UNCHANGED <<resume_skills, job_requirements>>
    /\ UNCHANGED beyondMatcher

\* None where a profile is expected, distinct from every dict.
NullProfile == [null |-> TRUE]

\* A profile is a dict: every template calls get on both profiles (lines
\* 95-96 and the like), which raises AttributeError on None.
IsDict(profile) == profile # NullProfile

\* generate_cover_letter up to the provider call (lines 35-41): the prompt is
\* built; with a credential generate_content is invoked and the call blocks
\* on it, without one the fallback letter is returned (lines 48-51).  The
\* template call of line 36 is outside every try statement: what it raises
\* leaves generate_cover_letter.
GenerateCoverLetter(resume_data, job_data, template_style, custom_message) ==
    LET req == [resume_data |-> resume_data, job_data |-> job_data,
                template_style |-> template_style,
                custom_message |-> custom_message]
    IN  /\ pc = "idle"
        /\ request' = req
        /\ IF ~IsDict(resume_data) \/ ~IsDict(job_data)
           THEN /\ pc' = "raised"
                /\ result' = [returned |-> FALSE, exception |-> "AttributeError"]
                /\ UNCHANGED <<prompt, provider, provider_calls, failure>>
           ELSE /\ prompt' = BuildPrompt(template_style, resume_data, job_data,
                                         custom_message)
                /\ IF Truthy(gemini_api_key)
                   THEN /\ provider' = "pending"
                        /\ provider_calls' = provider_calls + 1
                        /\ pc' = "provider"
                        /\ result' = result
                   ELSE /\ pc' = "returned"
                        /\ result' = FallbackResponse(req)
                        /\ UNCHANGED <<provider, provider_calls>>
                /\ UNCHANGED failure
        /\ UNCHANGED gemini_api_key
        /\ UNCHANGED beyondGenerator

\* Lines 41-44: generate_content returns a response with a text; it is
\* post-processed and returned.
ProviderResponds(text) ==
    /\ pc = "provider"
    /\ provider = "pending"
    /\ provider' = "none"
    /\ pc' = "returned"
    /\ result' = _build_response(
                     _post_process_cover_letter(text, request.resume_data, request.job_data),
                     request.template_style, request.resume_data, request.job_data)
    /\ UNCHANGED <<gemini_api_key, request, prompt, provider_calls, failure>>
    /\ UNCHANGED beyondGenerator

\* A variant without the except clause: the exception leaves
\* generate_cover_letter.
ProviderFails_propagates(kind) ==
    /\ pc = "provider"
    /\ provider = "pending"
    /\ provider' = "none"
    /\ failure' = kind
    /\ pc' = "raised"
    /\ UNCHANGED <<gemini_api_key, request, prompt, provider_calls, result>>
    /\ UNCHANGED beyondGenerator

\* A variant that invokes the service a second time before it gives up.
ProviderFails_retries(kind) ==
    /\ pc = "provider"
    /\ provider = "pending"
    /\ failure' = kind
    /\ IF provider_calls < 2
       THEN /\ provider_calls' = provider_calls + 1
            /\ UNCHANGED <<pc, provider, result>>
       ELSE /\ provider' = "none"
            /\ pc' = "returned"
            /\ result' = FallbackResponse(request)
            /\ UNCHANGED provider_calls
    /\ UNCHANGED <<gemini_api_key, request, prompt>>
    /\ UNCHANGED beyondGenerator

\* Lines 45-51: something in the try block raised an Exception; it is logged
\* and the fallback letter is returned.
ProviderFails(kind) ==
    /\ pc = "provider"
    /\ provider = "pending"
    /\ provider' = "none"
    /\ failure' = kind
    /\ pc' = "returned"
    /\ result' = FallbackResponse(request)
    /\ UNCHANGED <<gemini_api_key, request, prompt, provider_calls>>
    /\ UNCHANGED beyondGenerator

\* The service never answers the pending generate_content call, which was
\* made without a timeout (line 41).
ProviderHangs ==
    /\ pc = "provider"
    /\ provider = "pending"
    /\ provider' = "hung"
    /\ UNCHANGED <<gemini_api_key, pc, request, prompt, provider_calls, failure, result>>
    /\ UNCHANGED beyondGenerator

\* The caller has the result; the generator is ready for the next call.
NextCall ==
    /\ pc = "returned"
    /\ pc' = "idle"
    /\ request' = NoRequest
    /\ prompt' = ""
    /\ provider' = "none"
    /\ provider_calls' = 0
    /\ failure' = None
    /\ result' = NoResult
    /\ UNCHANGED gemini_api_key
    /\ UNCHANGED beyondGenerator

-----------------------------------------------------------------------------
(* Python's re module: patterns as trees and a backtracking matcher.       *)
(* A pattern is a record with a field t:                                   *)
(*   set  one character in (or, with neg, not in) the set s                *)
(*   lit  the characters of the text s, in either case with ignorecase     *)
(*   seq  the patterns xs one after the other                              *)
(*   alt  the first of the patterns xs that leads to a match               *)
(*   rep  between min and max repetitions of x, lazy (as few as possible)  *)
(*        or greedy                                                        *)
(*   grp  the capturing group number k around x                            *)
(*   bol, eol, eos, wb   the assertions ^, $, \Z and \b                    *)
(* Positions are 1-based indexes of the next character; an outcome of a    *)
(* match is its end position e with the groups c captured on the way.      *)
(* Outcomes are listed in the order the backtracking search tries them.    *)

\* Stands for the maximum of a repetition that has no upper limit (*, + and
\* {n,}).
MAXREPEAT == -1

Digits == {"0", "1", "2", "3", "4", "5", "6", "7", "8", "9"}
UpperLetters == { UpperCase[i] : i \in 1..Len(UpperCase) }
LowerLetters == { LowerCase[i] : i \in 1..Len(LowerCase) }
Letters == UpperLetters \cup LowerLetters
\* \w, \s for ASCII text
WordChars == Letters \cup Digits \cup {"_"}
SpaceChars == {" ", "\t", "\n", "\r", "\f"}

\* The least member of a set of numbers that is not empty.
Min(S) == CHOOSE k \in S : \A j \in S : k <= j

\* The character ch is one the set pattern p accepts.
Accepts(p, ch) == (ch \in p.s) # p.neg

\* The end of the longest run of characters from position i that the
\* repetition p of a set takes: the end of the text, the maximum of the
\* repetition, or the first character the set does not accept.
RunEnd(p, cs, i) ==
    LET n == Len(cs)
        limit == IF p.max = MAXREPEAT \/ i + p.max > n + 1
                 THEN n + 1 ELSE i + p.max
    IN  Min({ k \in i..limit : k = limit \/ ~Accepts(p.x, cs[k]) })

\* A run of single characters that can end at last: every length from min
\* to the longest, the longest first unless lazy.
RunOuts(p, i, c, last) ==
    IF last - (i + p.min) + 1 <= 0 THEN <<>>
    ELSE [j \in 1..(last - (i + p.min) + 1) |->
             [e |-> IF p.lazy THEN i + p.min + j - 1 ELSE last - j + 1,
              c |-> c]]

\* The outcomes of group k opened at position i, from those of its content.
GrpOuts(k, i, outs) ==
    [j \in 1..Len(outs) |->
        [e |-> outs[j].e, c |-> [outs[j].c EXCEPT ![k] = <<i, outs[j].e>>]]]

RECURSIVE Match(_, _, _, _)
RECURSIVE MatchSeq(_, _, _, _, _)
RECURSIVE SeqOuts(_, _, _, _)
RECURSIVE MatchRep(_, _, _, _, _)
RECURSIVE RepOuts(_, _, _, _, _, _)

\* The outcomes of matching pattern p on the characters cs from position i.
Match(p, cs, i, c) ==
    LET n == Len(cs)
        here == <<[e |-> i, c |-> c]>>
        IsWord(k) == k >= 1 /\ k <= n /\ cs[k] \in WordChars
    IN  CASE p.t = "set" ->
                 IF i <= n /\ Accepts(p, cs[i])
                 THEN <<[e |-> i + 1, c |-> c]>> ELSE <<>>
          [] p.t = "lit" ->
                 IF /\ i + Len(p.s) - 1 <= n
                    /\ \A k \in 1..Len(p.s) :
                           IF p.ignorecase
                           THEN LowerChar(cs[i + k - 1]) = LowerChar(SubSeq(p.s, k, k))
                           ELSE cs[i + k - 1] = SubSeq(p.s, k, k)
                 THEN <<[e |-> i + Len(p.s), c |-> c]>> ELSE <<>>
          [] p.t = "seq" -> MatchSeq(p.xs, 1, cs, i, c)
          [] p.t = "alt" ->
                 Flatten([k \in 1..Len(p.xs) |-> Match(p.xs[k], cs, i, c)])
          [] p.t = "rep" ->
                 IF p.x.t = "set" THEN RunOuts(p, i, c, RunEnd(p, cs, i))
                 ELSE MatchRep(p, 0, cs, i, c)
          [] p.t = "grp" -> GrpOuts(p.k, i, Match(p.x, cs, i, c))
          [] p.t = "bol" ->
                 IF i = 1 \/ (p.multiline /\ cs[i - 1] = "\n") THEN here ELSE <<>>
          [] p.t = "eol" ->
                 IF i = n + 1 \/ (i = n /\ cs[n] = "\n") THEN here ELSE <<>>
          [] p.t = "eos" -> IF i = n + 1 THEN here ELSE <<>>
          [] p.t = "wb" -> IF IsWord(i - 1) # IsWord(i) THEN here ELSE <<>>

\* The patterns xs[k], xs[k+1], ... one after the other.
MatchSeq(xs, k, cs, i, c) ==
    IF k > Len(xs) THEN <<[e |-> i, c |-> c]>>
    ELSE SeqOuts(xs, k, cs, Match(xs[k], cs, i, c))

\* The rest of the sequence after each outcome of xs[k].
SeqOuts(xs, k, cs, outs) ==
    Flatten([j \in 1..Len(outs) |->
                MatchSeq(xs, k + 1, cs, outs[j].e, outs[j].c)])

\* count repetitions of p.x are done; one more, or stop here.
MatchRep(p, count, cs, i, c) ==
    RepOuts(p, count, cs, i, c,
            IF p.max = MAXREPEAT \/ count < p.max
            THEN Match(p.x, cs, i, c) ELSE <<>>)

\* outs are the outcomes of one more repetition: go on after each one that
\* took a character.
RepOuts(p, count, cs, i, c, outs) ==
    LET stop == IF count >= p.min THEN <<[e |-> i, c |-> c]>> ELSE <<>>
        more == Flatten([j \in 1..Len(outs) |->
                            IF outs[j].e > i
                            THEN MatchRep(p, count + 1, cs, outs[j].e, outs[j].c)
                            ELSE <<>>])
    IN  IF p.lazy THEN stop \o more ELSE more \o stop

\* No group has taken part in the match yet.
NoGroups(groups) == [k \in 1..groups |-> <<0, 0>>]

\* text[a-1:b-1], for 1-based positions a and b
Span(text, a, b) == IF a >= b THEN "" ELSE SubSeq(text, a, b - 1)

\* The number of capturing groups of a pattern.
RECURSIVE Groups(_)
Groups(p) ==
    LET Most(S) == CHOOSE m \in S \cup {0} : \A j \in S : m >= j
    IN  CASE p.t = "grp" -> Most({p.k, Groups(p.x)})
          [] p.t = "rep" -> Groups(p.x)
          [] p.t \in {"seq", "alt"} ->
                 Most({ Groups(p.xs[k]) : k \in 1..Len(p.xs) })
          [] OTHER -> 0

\* What re.findall puts in its list for one match: the group if the pattern
\* has one, the tuple of the groups if it has several, else the whole match.
\* A group that took no part in the match gives the empty string.
FoundItem(text, groups, m) ==
    LET G(k) == Span(text, m.c[k][1], m.c[k][2])
    IN  IF groups = 0 THEN Span(text, m.b, m.e)
        ELSE IF groups = 1 THEN G(1)
        ELSE [k \in 1..groups |-> G(k)]

\* The positions from i on where the pattern matches.
Starts(p, groups, cs, i) ==
    { j \in i..(Len(cs) + 1) : Match(p, cs, j, NoGroups(groups)) # <<>> }

RECURSIVE MatchesFrom(_, _, _, _)
RECURSIVE MatchesAt(_, _, _, _)
RECURSIVE MatchesAfter(_, _, _, _, _)

\* The matches a scan of the text finds from position i on: the leftmost
\* match, then on from its end (one character further after an empty
\* match).  b and e are the begin and end of a match, c its groups.
MatchesFrom(p, groups, cs, i) == MatchesAt(p, groups, cs, Starts(p, groups, cs, i))

MatchesAt(p, groups, cs, starts) ==
    IF starts = {} THEN <<>>
    ELSE MatchesAfter(p, groups, cs, Min(starts),
                      Head(Match(p, cs, Min(starts), NoGroups(groups))))

MatchesAfter(p, groups, cs, b, out) ==
    <<[b |-> b, e |-> out.e, c |-> out.c]>>
    \o MatchesFrom(p, groups, cs, IF out.e > b THEN out.e ELSE b + 1)

\* The list re.findall makes of the matches ms.
FoundItems(text, groups, ms) ==
    [k \in 1..Len(ms) |-> FoundItem(text, groups, ms[k])]

\* re.findall(pattern, text, flags); the flags are part of the tree p.
findall(p, text) ==
    FoundItems(text, Groups(p), MatchesFrom(p, Groups(p), Chars(text), 1))

\* re.search(pattern, text, flags): the first match, as the list of one
\* match or the empty list for None.
search(p, text) == Take(MatchesFrom(p, Groups(p), Chars(text), 1), 1)

\* The pieces of the text between the matches ms.
Pieces(text, ms) ==
    [k \in 1..(Len(ms) + 1) |->
        Span(text, IF k = 1 THEN 1 ELSE ms[k - 1].e,
                   IF k = Len(ms) + 1 THEN Len(text) + 1 ELSE ms[k].b)]

\* re.split(pattern, text), for a pattern without groups that matches no
\* empty string.
split_re(p, text) == Pieces(text, MatchesFrom(p, 0, Chars(text), 1))

\* The constructors of pattern trees.
Cls(S) == [t |-> "set", s |-> S, neg |-> FALSE]
NotCls(S) == [t |-> "set", s |-> S, neg |-> TRUE]
Chr(ch) == Cls({ch})
\* One letter under re.IGNORECASE.
IChr(ch) == Cls({ch, LowerChar(ch), UpperChar(ch)})
Cat(ps) == [t |-> "seq", xs |-> ps]
Alt(ps) == [t |-> "alt", xs |-> ps]
\* A literal text, and the same under re.IGNORECASE.
Str(s) == [t |-> "lit", s |-> s, ignorecase |-> FALSE]
IStr(s) == [t |-> "lit", s |-> s, ignorecase |-> TRUE]
Rep(p, lo, hi) == [t |-> "rep", x |-> p, min |-> lo, max |-> hi, lazy |-> FALSE]
Lazy(p, lo, hi) == [t |-> "rep", x |-> p, min |-> lo, max |-> hi, lazy |-> TRUE]
Grp(n, p) == [t |-> "grp", k |-> n, x |-> p]
\* ^ and ^ under re.MULTILINE, $, \Z, \b, and . with and without re.DOTALL
Bol == [t |-> "bol", multiline |-> FALSE]
BolM == [t |-> "bol", multiline |-> TRUE]
Eol == [t |-> "eol"]
Eos == [t |-> "eos"]
Wb == [t |-> "wb"]
AnyChar == NotCls({})
AnyButNewline == NotCls({"\n"})
-----------------------------------------------------------------------------
(* More of str, for the text the parsers read *)

\* str.title(): a letter after a letter in lower case, any other letter in
\* upper case
title(s) ==
    LET cs == Chars(s)
        T(i) == IF i > 1 /\ cs[i - 1] \in Letters
                THEN LowerChar(cs[i]) ELSE UpperChar(cs[i])
    IN  ConcatRange([i \in 1..Len(s) |-> T(i)], 1, Len(s))

\* str.isalpha() and str.isdigit()
isalpha(s) == s # "" /\ \A i \in 1..Len(s) : SubSeq(s, i, i) \in Letters
isdigit(s) == s # "" /\ \A i \in 1..Len(s) : SubSeq(s, i, i) \in Digits

\* text.split(sep), for a separator that is not empty
split_str(text, sep) == split_re(Str(sep), text)

\* line.split(): the words between runs of whitespace
split_words(line) ==
    IF strip(line) = "" THEN <<>>
    ELSE split_re(Rep(Cls(SpaceChars), 1, MAXREPEAT), strip(line))

\* The elements of xs that are no element earlier in xs, in the order of xs.
Distinct(xs) ==
    LET First(i) == \A k \in 1..(i - 1) : xs[k] # xs[i]
    IN  SelectSeq([i \in 1..Len(xs) |-> <<i, xs[i]>>],
                  LAMBDA e : First(e[1]))

\* The iteration orders of a set of strings: hashing is seeded once for a
\* process, so one process lists equal sets built the same way in the same
\* order; which order is not fixed by the program.
HashSeeds == {"insertion", "reversed", "rotated"}

\* list(set(xs)) in a process with the given hash seed
list_of_set(xs, seed) ==
    LET d == Distinct(xs)
        n == Len(d)
    IN  SubSeq([k \in 1..n |->
                   d[CASE seed = "insertion" -> k
                       [] seed = "reversed" -> n - k + 1
                       [] seed = "rotated" -> (k % n) + 1][2]], 1, n)
-----------------------------------------------------------------------------
(* The patterns of ResumeParser (backend/models/resume_parser.py); the flags *)
(* of each call are part of the tree.  The inputs are ASCII text, so the     *)
(* bullet character of three character sets is left out of them.            *)

\* r'\b[A-Za-z0-9._%+-]+@[A-Za-z0-9.-]+\.[A-Z|a-z]{2,}\b'
email_pattern ==
    Cat(<<Wb, Rep(Cls(Letters \cup Digits \cup {"%", "+", "-", ".", "_"}),
        1, MAXREPEAT), Chr("@"), Rep(Cls(Letters \cup Digits \cup {"-",
        "."}), 1, MAXREPEAT), Chr("."), Rep(Cls(Letters \cup {"|"}), 2,
        MAXREPEAT), Wb>>)

\* r'(\+?\d{1,3}[-.\s]?)?\(?\d{3}\)?[-.\s]?\d{3}[-.\s]?\d{4}'
phone_pattern ==
    Cat(<<Rep(Grp(1, Cat(<<Rep(Chr("+"), 0, 1), Rep(Cls(Digits), 1, 3),
        Rep(Cls(SpaceChars \cup {"-", "."}), 0, 1)>>)), 0, 1),
        Rep(Chr("("), 0, 1), Rep(Cls(Digits), 3, 3), Rep(Chr(")"), 0, 1),
        Rep(Cls(SpaceChars \cup {"-", "."}), 0, 1), Rep(Cls(Digits), 3, 3),
        Rep(Cls(SpaceChars \cup {"-", "."}), 0, 1), Rep(Cls(Digits), 4,
        4)>>)

\* r'linkedin\.com/in/[\w-]+'
linkedin_pattern ==
    Cat(<<IStr("linkedin.com/in/"), Rep(Cls(Letters \cup Digits \cup {"-",
        "_"}), 1, MAXREPEAT)>>)

\* r'github\.com/[\w-]+'
github_pattern ==
    Cat(<<IStr("github.com/"), Rep(Cls(Letters \cup Digits \cup {"-",
        "_"}), 1, MAXREPEAT)>>)

\* r'(?:skills?|technical skills?|competencies)[:]*\s*\n(.*?)(?:\n\s*\n|\n[A-Z]|$)'
skills_section_pattern ==
    Cat(<<Alt(<<Cat(<<IStr("skill"), Rep(IChr("s"), 0, 1)>>),
        Cat(<<IStr("technical skill"), Rep(IChr("s"), 0, 1)>>),
        IStr("competencies")>>), Rep(Chr(":"), 0, MAXREPEAT),
        Rep(Cls(SpaceChars), 0, MAXREPEAT), Chr("\n"), Grp(1, Lazy(AnyChar,
        0, MAXREPEAT)), Alt(<<Cat(<<Chr("\n"), Rep(Cls(SpaceChars), 0,
        MAXREPEAT), Chr("\n")>>), Cat(<<Chr("\n"), Cls(Letters)>>),
        Eol>>)>>)

\* r'[,<bullet>\-\n\t]+'
skill_separators ==
    Rep(Cls({"\t", "\n", ",", "-"}), 1, MAXREPEAT)

\* r'(?:experience|employment|work history)[:]*\s*\n(.*?)(?:\n\s*\n|\n(?:education|skills|projects)|$)'
exp_pattern ==
    Cat(<<Alt(<<IStr("experience"), IStr("employment"),
        IStr("work history")>>), Rep(Chr(":"), 0, MAXREPEAT),
        Rep(Cls(SpaceChars), 0, MAXREPEAT), Chr("\n"), Grp(1, Lazy(AnyChar,
        0, MAXREPEAT)), Alt(<<Cat(<<Chr("\n"), Rep(Cls(SpaceChars), 0,
        MAXREPEAT), Chr("\n")>>), Cat(<<Chr("\n"), Alt(<<IStr("education"),
        IStr("skills"), IStr("projects")>>)>>), Eol>>)>>)

\* r'([A-Za-z\s]+(?:Engineer|Developer|Manager|Analyst|Specialist|Coordinator|Director|Lead|Senior|Junior))[,\s]*(?:at|@|-)\s*([A-Za-z\s&.,]+)'
job_pattern ==
    Cat(<<Grp(1, Cat(<<Rep(Cls(Letters \cup SpaceChars), 1, MAXREPEAT),
        Alt(<<IStr("Engineer"), IStr("Developer"), IStr("Manager"),
        IStr("Analyst"), IStr("Specialist"), IStr("Coordinator"),
        IStr("Director"), IStr("Lead"), IStr("Senior"),
        IStr("Junior")>>)>>)), Rep(Cls(SpaceChars \cup {","}), 0,
        MAXREPEAT), Alt(<<IStr("at"), Chr("@"), Chr("-")>>),
        Rep(Cls(SpaceChars), 0, MAXREPEAT), Grp(2,
        Rep(Cls(Letters \cup SpaceChars \cup {"&", ",", "."}), 1,
        MAXREPEAT))>>)

\* r'(?:education|academic background|qualifications)[:]*\s*\n(.*?)(?:\n\s*\n|\n(?:experience|skills|projects)|$)'
edu_pattern ==
    Cat(<<Alt(<<IStr("education"), IStr("academic background"),
        IStr("qualifications")>>), Rep(Chr(":"), 0, MAXREPEAT),
        Rep(Cls(SpaceChars), 0, MAXREPEAT), Chr("\n"), Grp(1, Lazy(AnyChar,
        0, MAXREPEAT)), Alt(<<Cat(<<Chr("\n"), Rep(Cls(SpaceChars), 0,
        MAXREPEAT), Chr("\n")>>), Cat(<<Chr("\n"),
        Alt(<<IStr("experience"), IStr("skills"), IStr("projects")>>)>>),
        Eol>>)>>)

\* r'(Bachelor|Master|PhD|Doctorate|Diploma|Certificate)[s]?\s+(?:of|in)?\s+([A-Za-z\s]+)(?:\s+(?:from|at)\s+([A-Za-z\s&.,]+))?'
degree_pattern ==
    Cat(<<Grp(1, Alt(<<IStr("Bachelor"), IStr("Master"), IStr("PhD"),
        IStr("Doctorate"), IStr("Diploma"), IStr("Certificate")>>)),
        Rep(IChr("s"), 0, 1), Rep(Cls(SpaceChars), 1, MAXREPEAT),
        Rep(Alt(<<IStr("of"), IStr("in")>>), 0, 1), Rep(Cls(SpaceChars), 1,
        MAXREPEAT), Grp(2, Rep(Cls(Letters \cup SpaceChars), 1,
        MAXREPEAT)), Rep(Cat(<<Rep(Cls(SpaceChars), 1, MAXREPEAT),
        Alt(<<IStr("from"), IStr("at")>>), Rep(Cls(SpaceChars), 1,
        MAXREPEAT), Grp(3, Rep(Cls(Letters \cup SpaceChars \cup {"&", ",",
        "."}), 1, MAXREPEAT))>>), 0, 1)>>)

\* r'(?:summary|objective|profile|about)[:]*\s*\n(.*?)(?:\n\s*\n|\n[A-Z]|$)'
\* r'^(.*?)(?:\n\s*\n|\nexperience|\neducation|\nskills)'
summary_patterns ==
    <<Cat(<<Alt(<<IStr("summary"), IStr("objective"), IStr("profile"),
        IStr("about")>>), Rep(Chr(":"), 0, MAXREPEAT), Rep(Cls(SpaceChars),
        0, MAXREPEAT), Chr("\n"), Grp(1, Lazy(AnyChar, 0, MAXREPEAT)),
        Alt(<<Cat(<<Chr("\n"), Rep(Cls(SpaceChars), 0, MAXREPEAT),
        Chr("\n")>>), Cat(<<Chr("\n"), Cls(Letters)>>), Eol>>)>>),
        Cat(<<Bol, Grp(1, Lazy(AnyChar, 0, MAXREPEAT)), Chr("\n"),
        Alt(<<Cat(<<Rep(Cls(SpaceChars), 0, MAXREPEAT), Chr("\n")>>),
        IStr("experience"), IStr("education"), IStr("skills")>>)>>)>>

\* r'(?:projects?|portfolio)[:]*\s*\n(.*?)(?:\n\s*\n|\n(?:experience|education|skills)|$)'
project_pattern ==
    Cat(<<IChr("p"), Alt(<<Cat(<<IStr("roject"), Rep(IChr("s"), 0, 1)>>),
        IStr("ortfolio")>>), Rep(Chr(":"), 0, MAXREPEAT),
        Rep(Cls(SpaceChars), 0, MAXREPEAT), Chr("\n"), Grp(1, Lazy(AnyChar,
        0, MAXREPEAT)), Alt(<<Cat(<<Chr("\n"), Rep(Cls(SpaceChars), 0,
        MAXREPEAT), Chr("\n")>>), Cat(<<Chr("\n"),
        Alt(<<IStr("experience"), IStr("education"), IStr("skills")>>)>>),
        Eol>>)>>)

-----------------------------------------------------------------------------
(* The patterns of JobAnalyzer (backend/models/job_analyzer.py) *)

\* r'(?:experience|proficiency|skills?)\s+(?:in|with|using)\s+([^,.]+)'
\* r'(?:knowledge|understanding)\s+of\s+([^,.]+)'
\* r'(?:proficient|expert)\s+in\s+([^,.]+)'
\* r'(\d+\+?\s*years?)\s+(?:of\s+)?(?:experience\s+)?(?:with|in)\s+([^,.]+)'
skills_patterns ==
    <<Cat(<<Alt(<<IStr("experience"), IStr("proficiency"),
        Cat(<<IStr("skill"), Rep(IChr("s"), 0, 1)>>)>>),
        Rep(Cls(SpaceChars), 1, MAXREPEAT), Alt(<<IStr("in"), IStr("with"),
        IStr("using")>>), Rep(Cls(SpaceChars), 1, MAXREPEAT), Grp(1,
        Rep(NotCls({",", "."}), 1, MAXREPEAT))>>),
        Cat(<<Alt(<<IStr("knowledge"), IStr("understanding")>>),
        Rep(Cls(SpaceChars), 1, MAXREPEAT), IStr("of"),
        Rep(Cls(SpaceChars), 1, MAXREPEAT), Grp(1, Rep(NotCls({",", "."}),
        1, MAXREPEAT))>>), Cat(<<Alt(<<IStr("proficient"),
        IStr("expert")>>), Rep(Cls(SpaceChars), 1, MAXREPEAT), IStr("in"),
        Rep(Cls(SpaceChars), 1, MAXREPEAT), Grp(1, Rep(NotCls({",", "."}),
        1, MAXREPEAT))>>), Cat(<<Grp(1, Cat(<<Rep(Cls(Digits), 1,
        MAXREPEAT), Rep(Chr("+"), 0, 1), Rep(Cls(SpaceChars), 0,
        MAXREPEAT), IStr("year"), Rep(IChr("s"), 0, 1)>>)),
        Rep(Cls(SpaceChars), 1, MAXREPEAT), Rep(Cat(<<IStr("of"),
        Rep(Cls(SpaceChars), 1, MAXREPEAT)>>), 0, 1),
        Rep(Cat(<<IStr("experience"), Rep(Cls(SpaceChars), 1,
        MAXREPEAT)>>), 0, 1), Alt(<<IStr("with"), IStr("in")>>),
        Rep(Cls(SpaceChars), 1, MAXREPEAT), Grp(2, Rep(NotCls({",", "."}),
        1, MAXREPEAT))>>)>>

\* r'(?:company|organization|employer)[:]\s*([A-Za-z\s&.,]+)'
\* r'^([A-Z][A-Za-z\s&.,]+)(?:\s+is\s+)'
\* r'(?:join|work at|employment with)\s+([A-Z][A-Za-z\s&.,]+)'
company_patterns ==
    <<Cat(<<Alt(<<Str("company"), Str("organization"), Str("employer")>>),
        Chr(":"), Rep(Cls(SpaceChars), 0, MAXREPEAT), Grp(1,
        Rep(Cls(Letters \cup SpaceChars \cup {"&", ",", "."}), 1,
        MAXREPEAT))>>), Cat(<<BolM, Grp(1, Cat(<<Cls(UpperLetters),
        Rep(Cls(Letters \cup SpaceChars \cup {"&", ",", "."}), 1,
        MAXREPEAT)>>)), Rep(Cls(SpaceChars), 1, MAXREPEAT), Str("is"),
        Rep(Cls(SpaceChars), 1, MAXREPEAT)>>), Cat(<<Alt(<<Str("join"),
        Str("work at"), Str("employment with")>>), Rep(Cls(SpaceChars), 1,
        MAXREPEAT), Grp(1, Cat(<<Cls(UpperLetters),
        Rep(Cls(Letters \cup SpaceChars \cup {"&", ",", "."}), 1,
        MAXREPEAT)>>))>>)>>

\* r'(?:about us|company description|who we are)[:]*\s*\n(.*?)(?:\n\s*\n|\n[A-Z])'
\* r'([A-Z][^.]*(?:company|organization|business|firm)[^.]*\.)'
desc_patterns ==
    <<Cat(<<Alt(<<IStr("about us"), IStr("company description"),
        IStr("who we are")>>), Rep(Chr(":"), 0, MAXREPEAT),
        Rep(Cls(SpaceChars), 0, MAXREPEAT), Chr("\n"), Grp(1, Lazy(AnyChar,
        0, MAXREPEAT)), Chr("\n"), Alt(<<Cat(<<Rep(Cls(SpaceChars), 0,
        MAXREPEAT), Chr("\n")>>), Cls(Letters)>>)>>), Grp(1,
        Cat(<<Cls(Letters), Rep(NotCls({"."}), 0, MAXREPEAT),
        Alt(<<IStr("company"), IStr("organization"), IStr("business"),
        IStr("firm")>>), Rep(NotCls({"."}), 0, MAXREPEAT), Chr(".")>>))>>

\* r'(?:position|role|job title)[:]\s*([^\n]+)'
title_pattern ==
    Cat(<<Alt(<<IStr("position"), IStr("role"), IStr("job title")>>),
        Chr(":"), Rep(Cls(SpaceChars), 0, MAXREPEAT), Grp(1,
        Rep(NotCls({"\n"}), 1, MAXREPEAT))>>)

\* r'(?:required|requirements|must have|essential)[:]*\s*\n(.*?)(?:\n\s*\n|\n(?:preferred|nice|benefits)|$)'
\* r'(?:you must have|minimum requirements)[:]*\s*\n(.*?)(?:\n\s*\n|\n[A-Z])'
\* r'(?:required skills?|technical requirements)[:]*\s*\n(.*?)(?:\n\s*\n|\n[A-Z])'
req_patterns ==
    <<Cat(<<Alt(<<IStr("required"), IStr("requirements"),
        IStr("must have"), IStr("essential")>>), Rep(Chr(":"), 0,
        MAXREPEAT), Rep(Cls(SpaceChars), 0, MAXREPEAT), Chr("\n"), Grp(1,
        Lazy(AnyChar, 0, MAXREPEAT)), Alt(<<Cat(<<Chr("\n"),
        Rep(Cls(SpaceChars), 0, MAXREPEAT), Chr("\n")>>), Cat(<<Chr("\n"),
        Alt(<<IStr("preferred"), IStr("nice"), IStr("benefits")>>)>>),
        Eol>>)>>), Cat(<<Alt(<<IStr("you must have"),
        IStr("minimum requirements")>>), Rep(Chr(":"), 0, MAXREPEAT),
        Rep(Cls(SpaceChars), 0, MAXREPEAT), Chr("\n"), Grp(1, Lazy(AnyChar,
        0, MAXREPEAT)), Chr("\n"), Alt(<<Cat(<<Rep(Cls(SpaceChars), 0,
        MAXREPEAT), Chr("\n")>>), Cls(Letters)>>)>>),
        Cat(<<Alt(<<Cat(<<IStr("required skill"), Rep(IChr("s"), 0, 1)>>),
        IStr("technical requirements")>>), Rep(Chr(":"), 0, MAXREPEAT),
        Rep(Cls(SpaceChars), 0, MAXREPEAT), Chr("\n"), Grp(1, Lazy(AnyChar,
        0, MAXREPEAT)), Chr("\n"), Alt(<<Cat(<<Rep(Cls(SpaceChars), 0,
        MAXREPEAT), Chr("\n")>>), Cls(Letters)>>)>>)>>

\* r'(?:preferred|nice to have|bonus|plus|additional)[:]*\s*\n(.*?)(?:\n\s*\n|\n[A-Z]|$)'
\* r'(?:nice if you have|would be great)[:]*\s*\n(.*?)(?:\n\s*\n|\n[A-Z])'
\* r'(?:preferred qualifications|desired skills)[:]*\s*\n(.*?)(?:\n\s*\n|\n[A-Z])'
pref_patterns ==
    <<Cat(<<Alt(<<IStr("preferred"), IStr("nice to have"), IStr("bonus"),
        IStr("plus"), IStr("additional")>>), Rep(Chr(":"), 0, MAXREPEAT),
        Rep(Cls(SpaceChars), 0, MAXREPEAT), Chr("\n"), Grp(1, Lazy(AnyChar,
        0, MAXREPEAT)), Alt(<<Cat(<<Chr("\n"), Rep(Cls(SpaceChars), 0,
        MAXREPEAT), Chr("\n")>>), Cat(<<Chr("\n"), Cls(Letters)>>),
        Eol>>)>>), Cat(<<Alt(<<IStr("nice if you have"),
        IStr("would be great")>>), Rep(Chr(":"), 0, MAXREPEAT),
        Rep(Cls(SpaceChars), 0, MAXREPEAT), Chr("\n"), Grp(1, Lazy(AnyChar,
        0, MAXREPEAT)), Chr("\n"), Alt(<<Cat(<<Rep(Cls(SpaceChars), 0,
        MAXREPEAT), Chr("\n")>>), Cls(Letters)>>)>>),
        Cat(<<Alt(<<IStr("preferred qualifications"),
        IStr("desired skills")>>), Rep(Chr(":"), 0, MAXREPEAT),
        Rep(Cls(SpaceChars), 0, MAXREPEAT), Chr("\n"), Grp(1, Lazy(AnyChar,
        0, MAXREPEAT)), Chr("\n"), Alt(<<Cat(<<Rep(Cls(SpaceChars), 0,
        MAXREPEAT), Chr("\n")>>), Cls(Letters)>>)>>)>>

\* r'(?:responsibilities|duties|you will|what you\'ll do)[:]*\s*\n(.*?)(?:\n\s*\n|\n(?:requirements|qualifications)|$)'
\* r'(?:key responsibilities|main duties)[:]*\s*\n(.*?)(?:\n\s*\n|\n[A-Z])'
\* r'(?:in this role|as a .+, you will)[:]*\s*\n(.*?)(?:\n\s*\n|\n[A-Z])'
resp_patterns ==
    <<Cat(<<Alt(<<IStr("responsibilities"), IStr("duties"),
        IStr("you will"), IStr("what you'll do")>>), Rep(Chr(":"), 0,
        MAXREPEAT), Rep(Cls(SpaceChars), 0, MAXREPEAT), Chr("\n"), Grp(1,
        Lazy(AnyChar, 0, MAXREPEAT)), Alt(<<Cat(<<Chr("\n"),
        Rep(Cls(SpaceChars), 0, MAXREPEAT), Chr("\n")>>), Cat(<<Chr("\n"),
        Alt(<<IStr("requirements"), IStr("qualifications")>>)>>),
        Eol>>)>>), Cat(<<Alt(<<IStr("key responsibilities"),
        IStr("main duties")>>), Rep(Chr(":"), 0, MAXREPEAT),
        Rep(Cls(SpaceChars), 0, MAXREPEAT), Chr("\n"), Grp(1, Lazy(AnyChar,
        0, MAXREPEAT)), Chr("\n"), Alt(<<Cat(<<Rep(Cls(SpaceChars), 0,
        MAXREPEAT), Chr("\n")>>), Cls(Letters)>>)>>),
        Cat(<<Alt(<<IStr("in this role"), Cat(<<IStr("as a "), Rep(AnyChar,
        1, MAXREPEAT), IStr(", you will")>>)>>), Rep(Chr(":"), 0,
        MAXREPEAT), Rep(Cls(SpaceChars), 0, MAXREPEAT), Chr("\n"), Grp(1,
        Lazy(AnyChar, 0, MAXREPEAT)), Chr("\n"),
        Alt(<<Cat(<<Rep(Cls(SpaceChars), 0, MAXREPEAT), Chr("\n")>>),
        Cls(Letters)>>)>>)>>

\* r'[<bullet>\-\n]+'
resp_separators ==
    Rep(Cls({"\n", "-"}), 1, MAXREPEAT)

\* r'(?:qualifications|education|degree)[:]*\s*\n(.*?)(?:\n\s*\n|\n(?:experience|skills)|$)'
\* r'(?:minimum qualifications|educational requirements)[:]*\s*\n(.*?)(?:\n\s*\n|\n[A-Z])'
\* r'(?:bachelor|master|phd|degree)([^.]+\.)'
qual_patterns ==
    <<Cat(<<Alt(<<IStr("qualifications"), IStr("education"),
        IStr("degree")>>), Rep(Chr(":"), 0, MAXREPEAT),
        Rep(Cls(SpaceChars), 0, MAXREPEAT), Chr("\n"), Grp(1, Lazy(AnyChar,
        0, MAXREPEAT)), Alt(<<Cat(<<Chr("\n"), Rep(Cls(SpaceChars), 0,
        MAXREPEAT), Chr("\n")>>), Cat(<<Chr("\n"),
        Alt(<<IStr("experience"), IStr("skills")>>)>>), Eol>>)>>),
        Cat(<<Alt(<<IStr("minimum qualifications"),
        IStr("educational requirements")>>), Rep(Chr(":"), 0, MAXREPEAT),
        Rep(Cls(SpaceChars), 0, MAXREPEAT), Chr("\n"), Grp(1, Lazy(AnyChar,
        0, MAXREPEAT)), Chr("\n"), Alt(<<Cat(<<Rep(Cls(SpaceChars), 0,
        MAXREPEAT), Chr("\n")>>), Cls(Letters)>>)>>),
        Cat(<<Alt(<<IStr("bachelor"), IStr("master"), IStr("phd"),
        IStr("degree")>>), Grp(1, Cat(<<Rep(NotCls({"."}), 1, MAXREPEAT),
        Chr(".")>>))>>)>>

\* r'(?:benefits|perks|we offer|compensation)[:]*\s*\n(.*?)(?:\n\s*\n|\n[A-Z]|$)'
\* r'(?:health insurance|401k|vacation|remote work|flexible)'
\* r'(?:competitive salary|stock options|bonus)'
benefit_patterns ==
    <<Cat(<<Alt(<<IStr("benefits"), IStr("perks"), IStr("we offer"),
        IStr("compensation")>>), Rep(Chr(":"), 0, MAXREPEAT),
        Rep(Cls(SpaceChars), 0, MAXREPEAT), Chr("\n"), Grp(1, Lazy(AnyChar,
        0, MAXREPEAT)), Alt(<<Cat(<<Chr("\n"), Rep(Cls(SpaceChars), 0,
        MAXREPEAT), Chr("\n")>>), Cat(<<Chr("\n"), Cls(Letters)>>),
        Eol>>)>>), Alt(<<IStr("health insurance"), IStr("401k"),
        IStr("vacation"), IStr("remote work"), IStr("flexible")>>),
        Alt(<<IStr("competitive salary"), IStr("stock options"),
        IStr("bonus")>>)>>

\* r'(\d+\+?)\s*years?\s*(?:of\s*)?experience'
\* r'(?:senior|junior|entry.level|mid.level|experienced)'
\* r'(?:minimum|at least)\s*(\d+)\s*years?'
exp_patterns ==
    <<Cat(<<Grp(1, Cat(<<Rep(Cls(Digits), 1, MAXREPEAT), Rep(Chr("+"), 0,
        1)>>)), Rep(Cls(SpaceChars), 0, MAXREPEAT), IStr("year"),
        Rep(IChr("s"), 0, 1), Rep(Cls(SpaceChars), 0, MAXREPEAT),
        Rep(Cat(<<IStr("of"), Rep(Cls(SpaceChars), 0, MAXREPEAT)>>), 0, 1),
        IStr("experience")>>), Alt(<<IStr("senior"), IStr("junior"),
        Cat(<<IStr("entry"), AnyButNewline, IStr("level")>>),
        Cat(<<IStr("mid"), AnyButNewline, IStr("level")>>),
        IStr("experienced")>>), Cat(<<Alt(<<IStr("minimum"),
        IStr("at least")>>), Rep(Cls(SpaceChars), 0, MAXREPEAT), Grp(1,
        Rep(Cls(Digits), 1, MAXREPEAT)), Rep(Cls(SpaceChars), 0,
        MAXREPEAT), IStr("year"), Rep(IChr("s"), 0, 1)>>)>>

\* r'requirements[:]*\s*(.*?)(?:\n\s*\n|\Z)'
requirements_section ==
    Cat(<<IStr("requirements"), Rep(Chr(":"), 0, MAXREPEAT),
        Rep(Cls(SpaceChars), 0, MAXREPEAT), Grp(1, Lazy(AnyChar, 0,
        MAXREPEAT)), Alt(<<Cat(<<Chr("\n"), Rep(Cls(SpaceChars), 0,
        MAXREPEAT), Chr("\n")>>), Eos>>)>>)

\* r'[<bullet>\-]\s*([^\n<bullet>\-]+)'
bullet_pattern ==
    Cat(<<Cls({"-"}), Rep(Cls(SpaceChars), 0, MAXREPEAT), Grp(1,
        Rep(NotCls({"\n", "-"}), 1, MAXREPEAT))>>)

\* r'[,;<bullet>\-\n\t]+'
separators ==
    Rep(Cls({"\t", "\n", ",", "-", ";"}), 1, MAXREPEAT)

-----------------------------------------------------------------------------
(* ResumeParser *)

\* ResumeParser.__init__: the attributes of a parser.
ResumeParserInit ==
    [skills_keywords |-> <<
         "python", "javascript", "java", "c++", "c#", "php", "ruby", "go", "rust",
         "typescript", "swift", "kotlin", "scala", "r", "matlab", "sql",
         "html", "css", "react", "angular", "vue", "node.js", "express", "django",
         "flask", "spring", "laravel", "rails", "asp.net",
         "mysql", "postgresql", "mongodb", "redis", "elasticsearch", "oracle",
         "sqlite", "cassandra", "dynamodb",
         "aws", "azure", "gcp", "docker", "kubernetes", "jenkins", "terraform",
         "ansible", "git", "gitlab", "github",
         "machine learning", "deep learning", "tensorflow", "pytorch", "scikit-learn",
         "pandas", "numpy", "matplotlib", "seaborn", "jupyter",
         "project management", "agile", "scrum", "leadership", "communication",
         "problem solving", "analytical thinking">>,
     education_keywords |-> <<
         "university", "college", "degree", "bachelor", "master", "phd", "doctorate",
         "certification", "diploma", "graduate", "undergraduate", "school",
         "institute", "academy", "education">>,
     experience_keywords |-> <<
         "experience", "work", "employment", "job", "position", "role",
         "company", "organization", "responsibilities", "achievements",
         "projects", "developed", "managed", "led", "implemented">>]

\* The first element of a list of matches, or the default without one.
FirstOr(matches, default) == IF matches # <<>> THEN Head(matches) ELSE default

\* Lines 108-113: a line among the first five that has at most four words,
\* all of them letters once the dots are taken out.
NameLine(line) ==
    /\ line # ""
    /\ Len(split_words(line)) <= 4
    /\ \A k \in 1..Len(split_words(line)) :
           isalpha(replace(split_words(line)[k], ".", ""))

_extract_contact_info(text) ==
    LET lines == Take(split_str(text, "\n"), 5)
        named == { k \in 1..Len(lines) : NameLine(strip(lines[k])) }
    IN  [email |-> FirstOr(findall(email_pattern, text), None),
         \* the pattern has one group, so findall lists what the group
         \* caught: the country prefix, empty when the number has none
         phone |-> FirstOr(findall(phone_pattern, text), None),
         name |-> IF named = {} THEN None
                  ELSE strip(lines[Min(named)]),
         linkedin |-> FirstOr(findall(linkedin_pattern, text), None),
         github |-> FirstOr(findall(github_pattern, text), None)]

\* Lines 131-139: the skills of one skills section.
SectionSkills(section) ==
    LET pieces == split_re(skill_separators, strip(section))
        stripped == [k \in 1..Len(pieces) |-> strip(pieces[k])]
        kept == SelectSeq(stripped, LAMBDA skill : skill # "" /\ Len(skill) < 50)
    IN  [k \in 1..Len(kept) |-> title(kept[k])]

_extract_skills(self, text, seed) ==
    LET text_lower == lower(text)
        hits == SelectSeq(self.skills_keywords,
                          LAMBDA skill : Contains(lower(skill), text_lower))
        sections == findall(skills_section_pattern, text)
        found_skills ==
            [k \in 1..Len(hits) |-> title(hits[k])]
            \o Flatten([k \in 1..Len(sections) |-> SectionSkills(sections[k])])
    IN  list_of_set(found_skills, seed)

\* The loop of _extract_job_description from line k on; found_job as in the
\* source.
RECURSIVE DescriptionLines(_, _, _, _, _)
DescriptionLines(lines, k, found_job, job_title, company) ==
    IF k > Len(lines) THEN <<>>
    ELSE LET line == strip(lines[k])
             rest(found) == DescriptionLines(lines, k + 1, found, job_title, company)
         IN  IF /\ Contains(lower(job_title), lower(line))
                /\ Contains(lower(company), lower(line))
             THEN rest(TRUE)
             ELSE IF ~found_job THEN rest(FALSE)
             ELSE IF line # "" /\ (StartsWith(line, "-")
                                   \/ Contains("responsible", lower(line)))
             THEN <<line>> \o rest(TRUE)
             ELSE IF line # "" /\ Len(line) > 30
             THEN <<line>> \o rest(TRUE)
             ELSE IF line = "" THEN <<>>
             ELSE rest(TRUE)

_extract_job_description(text, job_title, company) ==
    Join(DescriptionLines(split_str(text, "\n"), 1, FALSE, job_title, company), " ")

_extract_experience(text) ==
    LET exp_matches == findall(exp_pattern, text)
        Entries(match) ==
            LET exp_text == strip(match)
                jobs == findall(job_pattern, exp_text)
            IN  [k \in 1..Len(jobs) |->
                    [title |-> strip(jobs[k][1]),
                     company |-> strip(jobs[k][2]),
                     description |->
                         _extract_job_description(exp_text, jobs[k][1], jobs[k][2])]]
    IN  Flatten([k \in 1..Len(exp_matches) |-> Entries(exp_matches[k])])

_extract_education(text) ==
    LET edu_matches == findall(edu_pattern, text)
        Entries(match) ==
            LET degrees == findall(degree_pattern, strip(match))
            IN  [k \in 1..Len(degrees) |->
                    [degree |-> strip(degrees[k][1] \o " in " \o degrees[k][2]),
                     institution |-> IF degrees[k][3] # "" THEN strip(degrees[k][3])
                                     ELSE "Not specified",
                     field |-> strip(degrees[k][2])]]
    IN  Flatten([k \in 1..Len(edu_matches) |-> Entries(edu_matches[k])])

_extract_summary(text) ==
    LET by_heading == findall(summary_patterns[1], text)
        by_lead == findall(summary_patterns[2], text)
        paragraphs == split_str(text, "\n\n")
        fit == { k \in 1..Len(paragraphs) :
                   /\ Len(strip(paragraphs[k])) > 100
                   /\ Contains("experience", lower(strip(paragraphs[k]))) }
    IN  IF by_heading # <<>> /\ Len(strip(Head(by_heading))) > 50
        THEN strip(Head(by_heading))
        ELSE IF by_lead # <<>> /\ Len(strip(Head(by_lead))) > 50
        THEN strip(Head(by_lead))
        ELSE IF fit # {}
        THEN strip(paragraphs[Min(fit)])
        ELSE "No summary available"

_extract_projects(text) ==
    LET project_matches == findall(project_pattern, text)
        Entries(match) ==
            LET raw == split_str(strip(match), "\n")
                lines == SelectSeq([k \in 1..Len(raw) |-> strip(raw[k])],
                                   LAMBDA line : line # "" /\ (StartsWith(line, "-")
                                                               \/ Len(line) > 30))
            IN  [k \in 1..Len(lines) |->
                    [name |-> IF Len(lines[k]) > 50
                              THEN Prefix(lines[k], 50) \o "..." ELSE lines[k],
                     description |-> lines[k]]]
    IN  Flatten([k \in 1..Len(project_matches) |-> Entries(project_matches[k])])

_get_empty_resume_data ==
    [contact_info |-> [email |-> None, phone |-> None, name |-> None,
                       linkedin |-> None, github |-> None],
     skills |-> <<>>, experience |-> <<>>, education |-> <<>>,
     summary |-> "Unable to parse resume content", projects |-> <<>>]

\* The argument is a str: the extractors raise TypeError or AttributeError
\* on anything else, first of all on None.
IsStr(text) == text # None

\* parse_resume without its except clause: the TypeError of the first
\* extractor reaches the caller.
parse_resume_no_except(self, text, seed) ==
    IF IsStr(text)
    THEN [contact_info |-> _extract_contact_info(text),
          skills |-> _extract_skills(self, text, seed),
          experience |-> _extract_experience(text),
          education |-> _extract_education(text),
          summary |-> _extract_summary(text),
          projects |-> _extract_projects(text)]
    ELSE [exception |-> "TypeError"]

\* parse_resume: the dict of the six extractors, or the empty profile when
\* one of them raised.
parse_resume(self, text, seed) ==
    IF IsStr(text)
    THEN [contact_info |-> _extract_contact_info(text),
          skills |-> _extract_skills(self, text, seed),
          experience |-> _extract_experience(text),
          education |-> _extract_education(text),
          summary |-> _extract_summary(text),
          projects |-> _extract_projects(text)]
    ELSE _get_empty_resume_data
-----------------------------------------------------------------------------
(* JobAnalyzer *)

\* JobAnalyzer.__init__: the attributes of an analyzer.
JobAnalyzerInit ==
    [requirement_keywords |-> <<
         "required", "must have", "essential", "mandatory", "minimum",
         "necessary", "should have", "experience with", "proficient in",
         "knowledge of", "familiar with", "expertise in">>,
     skills_patterns |-> skills_patterns]

\* for pattern in patterns: matches = re.findall(pattern, text); if matches:
\* ... matches[0].strip(); break.  None when no pattern matches.
FirstMatchOf(patterns, text) ==
    LET found == { k \in 1..Len(patterns) : findall(patterns[k], text) # <<>> }
    IN  IF found = {} THEN None
        ELSE strip(Head(findall(patterns[Min(found)], text)))

_extract_company_info(text) ==
    [name |-> FirstMatchOf(company_patterns, text),
     description |-> FirstMatchOf(desc_patterns, text),
     industry |-> None]

title_words == <<"engineer", "developer", "manager", "analyst", "specialist",
                 "director", "coordinator", "lead", "senior", "junior">>

_extract_job_title(text) ==
    LET lines == Take(split_str(text, "\n"), 3)
        titled == { k \in 1..Len(lines) :
                      /\ strip(lines[k]) # ""
                      /\ \E w \in 1..Len(title_words) :
                             Contains(title_words[w], lower(strip(lines[k]))) }
        matches == findall(title_pattern, text)
    IN  IF titled # {}
        THEN strip(lines[Min(titled)])
        ELSE IF matches # <<>> THEN strip(Head(matches))
        ELSE "Position title not specified"

skip_phrases == <<"experience", "knowledge", "understanding", "proficiency",
                  "years", "minimum", "required", "preferred", "must have",
                  "should have", "ability to", "strong", "excellent">>

_parse_skills_from_text(text) ==
    LET pieces == split_re(separators, text)
    IN  SelectSeq([k \in 1..Len(pieces) |-> strip(pieces[k])],
                  LAMBDA skill :
                      /\ skill # ""
                      /\ Len(skill) > 2
                      /\ Len(skill) < 50
                      /\ ~\E p \in 1..Len(skip_phrases) :
                              Contains(skip_phrases[p], lower(skill))
                      /\ ~isdigit(skill))

\* for pattern in patterns: for match in re.findall(...):
\* skills.extend(self._parse_skills_from_text(match.strip()))
SectionSkillsOf(patterns, text) ==
    Flatten([p \in 1..Len(patterns) |->
        LET matches == findall(patterns[p], text)
        IN  Flatten([k \in 1..Len(matches) |->
                        _parse_skills_from_text(strip(matches[k]))])])

\* list(set(skill.title() for skill in skills if skill.strip()))
TitledSet(skills, seed) ==
    LET kept == SelectSeq(skills, LAMBDA skill : strip(skill) # "")
    IN  list_of_set([k \in 1..Len(kept) |-> title(kept[k])], seed)

\* Lines 122-128: what the skill patterns find; of a tuple of groups the
\* last one.
PhrasesOf(pattern, text) ==
    LET matches == findall(pattern, text)
    IN  [k \in 1..Len(matches) |->
            strip(IF Groups(pattern) > 1 THEN matches[k][Groups(pattern)]
                  ELSE matches[k])]

_extract_required_skills(self, text, seed) ==
    TitledSet(SectionSkillsOf(req_patterns, text)
              \o Flatten([p \in 1..Len(self.skills_patterns) |->
                             PhrasesOf(self.skills_patterns[p], text)]),
              seed)

_extract_preferred_skills(text, seed) ==
    TitledSet(SectionSkillsOf(pref_patterns, text),
              seed)

\* for pattern in patterns: for match in re.findall(...): the items the
\* operator Items makes of match.strip()
ItemsOfMatches(patterns, text, Items(_)) ==
    Flatten([p \in 1..Len(patterns) |->
        LET matches == findall(patterns[p], text)
        IN  Flatten([k \in 1..Len(matches) |-> Items(strip(matches[k]))])])

_extract_responsibilities(text) ==
    LET Items(resp_text) ==
            LET pieces == split_re(resp_separators, resp_text)
            IN  SelectSeq([k \in 1..Len(pieces) |-> strip(pieces[k])],
                          LAMBDA item : item # "" /\ Len(item) > 10)
    IN  ItemsOfMatches(resp_patterns, text, Items)

_extract_qualifications(text) ==
    LET Items(qual_text) == IF Len(qual_text) > 5 THEN <<qual_text>> ELSE <<>>
    IN  ItemsOfMatches(qual_patterns, text, Items)

\* A match is a str for every pattern of the list: each has at most one
\* group.
_extract_benefits(text) ==
    Flatten([p \in 1..Len(benefit_patterns) |->
        LET matches == findall(benefit_patterns[p], text)
        IN  SelectSeq([k \in 1..Len(matches) |-> strip(matches[k])],
                      LAMBDA benefit : Len(benefit) > 5)])

job_types == <<"full-time", "part-time", "contract", "freelance", "temporary",
               "internship", "remote">>

_extract_job_type(text) ==
    LET found == { k \in 1..Len(job_types) : Contains(job_types[k], lower(text)) }
    IN  IF found = {} THEN "Not specified"
        ELSE title(job_types[Min(found)])

\* str(matches[0]) + " years" if matches[0].isdigit() else matches[0], for
\* the first pattern that matches.
_extract_experience_level(text) ==
    LET found == { k \in 1..Len(exp_patterns) :
                     findall(exp_patterns[k], text) # <<>> }
        Level(match) == IF isdigit(match) THEN match \o " years" ELSE match
    IN  IF found = {} THEN "Not specified"
        ELSE Level(Head(findall(exp_patterns[Min(found)], text)))

\* The bullets of the text req_content.
Bullets(req_content) ==
    LET bullets == findall(bullet_pattern, req_content)
    IN  SelectSeq([k \in 1..Len(bullets) |-> strip(bullets[k])],
                  LAMBDA bullet : Len(bullet) > 10)

_extract_key_requirements(text) ==
    LET req_section == search(requirements_section, text)
    IN  IF Contains("requirements", lower(text)) /\ req_section # <<>>
        THEN Take(Bullets(FoundItem(text, 1, Head(req_section))), 10)
        ELSE <<>>

_get_empty_job_data ==
    [company_info |-> [name |-> None, description |-> None, industry |-> None],
     job_title |-> "Not specified",
     required_skills |-> <<>>, preferred_skills |-> <<>>,
     responsibilities |-> <<>>, qualifications |-> <<>>, benefits |-> <<>>,
     job_type |-> "Not specified", experience_level |-> "Not specified",
     key_requirements |-> <<>>]

\* analyze_job_description: the dict of the ten extractors, or the empty
\* profile when one of them raised.
analyze_job_description(self, job_text, seed) ==
    IF IsStr(job_text)
    THEN [company_info |-> _extract_company_info(job_text),
          job_title |-> _extract_job_title(job_text),
          required_skills |-> _extract_required_skills(self, job_text, seed),
          preferred_skills |-> _extract_preferred_skills(job_text, seed),
          responsibilities |-> _extract_responsibilities(job_text),
          qualifications |-> _extract_qualifications(job_text),
          benefits |-> _extract_benefits(job_text),
          job_type |-> _extract_job_type(job_text),
          experience_level |-> _extract_experience_level(job_text),
          key_requirements |-> _extract_key_requirements(job_text)]
    ELSE _get_empty_job_data

-----------------------------------------------------------------------------
(* SkillsMatcher.get_skill_priority_ranking *)

\* The points of a mention, of a mention in the opening of the text and of a
\* mention after a marker, and the length of the opening, job_text[:200].
MentionPoints == 10
EarlyPoints == 20
RequiredPoints == 30
EarlyChars == 200

\* s.count(sub): the occurrences of sub found from the left, none of which
\* overlaps the one before; len(s) + 1 for an empty sub.
count(s, sub) == IF sub = "" THEN Len(s) + 1 ELSE Len(split_str(s, sub)) - 1

\* rf'(?:required|essential|must have|critical).*?{re.escape(skill_lower)}'
required_context(skill_lower) ==
    Cat(<<Alt(<<Str("required"), Str("essential"), Str("must have"), Str("critical")>>),
          Lazy(AnyButNewline, 0, MAXREPEAT),
          Str(skill_lower)>>)

\* The body of the loop of lines 217-234 for one skill.
priority_score(skill, job_text) ==
    LET job_text_lower == lower(job_text)
        skill_lower == lower(skill)
    IN  count(job_text_lower, skill_lower) * MentionPoints
        + (IF Contains(skill_lower, lower(Prefix(job_text, EarlyChars)))
           THEN EarlyPoints ELSE 0)
        + (IF findall(required_context(skill_lower), job_text_lower) # <<>>
           THEN RequiredPoints ELSE 0)

\* A variant that sorts by rising score and reverses the list: pairs of
\* equal score come out in the reverse of their order.
sorted_by_score_reversed(skill_priorities) ==
    LET Before(i, k) == \/ skill_priorities[i][2] > skill_priorities[k][2]
                        \/ /\ skill_priorities[i][2] = skill_priorities[k][2]
                           /\ i > k
        At(n) == CHOOSE k \in 1..Len(skill_priorities) :
                     Cardinality({ i \in 1..Len(skill_priorities) : Before(i, k) }) = n - 1
    IN  SubSeq([n \in 1..Len(skill_priorities) |-> skill_priorities[At(n)]],
               1, Len(skill_priorities))

\* sorted(skill_priorities, key=lambda x: x[1], reverse=True): by falling
\* score; the sort is stable, also with reverse, so pairs of equal score
\* keep the order they have in the list.
sorted_by_score(skill_priorities) ==
    LET Before(i, k) == \/ skill_priorities[i][2] > skill_priorities[k][2]
                        \/ /\ skill_priorities[i][2] = skill_priorities[k][2]
                           /\ i < k
        At(n) == CHOOSE k \in 1..Len(skill_priorities) :
                     Cardinality({ i \in 1..Len(skill_priorities) : Before(i, k) }) = n - 1
    IN  SubSeq([n \in 1..Len(skill_priorities) |-> skill_priorities[At(n)]],
               1, Len(skill_priorities))

get_skill_priority_ranking(reqs, job_text) ==
    sorted_by_score(SubSeq([k \in 1..Len(reqs) |->
                               <<reqs[k], priority_score(reqs[k], job_text)>>],
                           1, Len(reqs)))

-----------------------------------------------------------------------------
(* Calls on the shared parser and analyzer (backend/app.py, lines 36-47):   *)
(* one ResumeParser and one JobAnalyzer serve every request of the process. *)

\* The resume texts and job texts of the calls.
ResumeTexts ==
    {None, "",
     "Jane Doe\njane@example.org\nSkills:\nPython, SQL\n\nExperience:\nSenior Developer at Initech\n",
     "I know java and aws.\nEducation:\nBachelor of Science in Physics from MIT\n"}

JobTexts ==
    {None, "",
     "Data Analyst\nCompany: Initech\nRequirements:\n- Python, SQL\n- 5+ years of experience with AWS\n"}

\* The calls one behaviour makes.
MaxCalls == 3

\* No call has been made on a parser and an analyzer as constructed.
ParserIdle ==
    /\ resume_parser = ResumeParserInit
    /\ job_analyzer = JobAnalyzerInit
    /\ calls = <<>>

\* parse_resume in a program that hashes its strings anew for every call.
ParseResume_rehashed(text) ==
    /\ Len(calls) < MaxCalls
    /\ \E seed \in HashSeeds :
           calls' = Append(calls, [op |-> "parse_resume", text |-> text,
                                  result |-> parse_resume(resume_parser, text, seed)])
    /\ UNCHANGED <<hash_seed, resume_parser, job_analyzer>>
    /\ UNCHANGED beyondParser

\* parse_resume in a program whose parser learns: the skills it found are
\* added to the vocabulary of the shared instance.
ParseResume_learns(text) ==
    /\ Len(calls) < MaxCalls
    /\ \E profile \in {parse_resume(resume_parser, text, hash_seed)} :
           /\ calls' = Append(calls, [op |-> "parse_resume", text |-> text,
                                      result |-> profile])
           /\ resume_parser' =
                  [resume_parser EXCEPT !.skills_keywords =
                       @ \o [i \in 1..Len(profile.skills) |-> lower(profile.skills[i])]]
    /\ UNCHANGED <<hash_seed, job_analyzer>>
    /\ UNCHANGED beyondParser

\* resume_parser.parse_resume(text), from call to return
ParseResume(text) ==
    /\ Len(calls) < MaxCalls
    /\ calls' = Append(calls, [op |-> "parse_resume", text |-> text,
                              result |-> parse_resume(resume_parser, text, hash_seed)])
    /\ UNCHANGED <<hash_seed, resume_parser, job_analyzer>>
    /\ UNCHANGED beyondParser

\* job_analyzer.analyze_job_description(job_text), from call to return
AnalyzeJobDescription(job_text) ==
    /\ Len(calls) < MaxCalls
    /\ calls' = Append(calls, [op |-> "analyze_job_description", text |-> job_text,
                              result |-> analyze_job_description(job_analyzer, job_text,
                                                                 hash_seed)])
    /\ UNCHANGED <<hash_seed, resume_parser, job_analyzer>>
    /\ UNCHANGED beyondParser


-----------------------------------------------------------------------------
(* Single calls of three functions: get_skill_priority_ranking of the      *)
(* matcher, _extract_experience_level of the analyzer and _extract_summary *)
(* of the parser.  None of them reads or writes the state of its object.   *)

\* The job texts of the ranking calls: no text; a title and a requirements
\* line with markers, one marker on a line of its own; a text in capitals
\* that names a skill before its only marker; and two texts longer than the
\* opening of 200 characters, with "Python" ending at character 200 in one
\* and at character 201 in the other.
RankingOpening ==
    "We are a logistics company with offices in four countries. Our platform team keeps the ordering and routing services running for several thousand customers, every day of the year and around the "

RankingTexts ==
    {"",
     "Senior Python Developer\nRequired: Python, SQL. Docker is a plus.\nYou will write python and sql every day.\nMust have\nAWS\n",
     "PYTHON IS REQUIRED.\nSQL helps.\n",
     RankingOpening \o "Python is what we write.\nEssential: AWS and SQL\n",
     RankingOpening \o "XPython is what we write.\nEssential: AWS and SQL\n"}

\* The skills a required list of the ranking calls is made of.
RankingSkills == {"Python", "SQL", "AWS", "Docker", "Go"}

\* The length of the required lists enumerated in full.
MaxRanked == 2

\* The required lists of the ranking calls: every list over RankingSkills up
\* to MaxRanked entries, and longer lists with several entries of one score.
RankingLists ==
    UNION { [1..n -> RankingSkills] : n \in 0..MaxRanked }
    \cup {<<"Go", "Docker", "Python", "AWS", "SQL">>,
          <<"SQL", "AWS", "Go", "Python", "Docker">>,
          <<"Docker", "Go", "SQL", "Go", "AWS">>}

\* The job texts of the experience-level calls.
LevelTexts ==
    {"",
     "5+ years of experience with AWS",
     "5 years of experience",
     "3 years experience in support",
     "10+ years experience",
     "1 year of experience",
     "Minimum 3 years in the field",
     "at least 2 years of practice",
     "Senior engineer wanted",
     "An entry-level role",
     "We need an experienced developer",
     "Senior role, 5 years of experience",
     "Minimum 3 years, senior level",
     "Experience: 5 years",
     "7+years experience"}

\* The resume texts of the summary calls.
SummaryTexts ==
    {"",
     "Jane Doe\n\nSummary:\nBackend developer with eight years of experience building data services.\n\nSkills:\nPython\n",
     "Jane Doe\n\nSummary:\nBackend developer.\n\nSkills:\nPython\n",
     "Jane Doe, software developer based in Berlin, open to relocation\njane@example.org\n\nSkills:\nPython\n",
     "Jane Doe\njane@example.org\nSkills:\nPython, SQL\n",
     "Jane Doe\n\nI have worked for ten years in logistics and retail companies, and my experience covers planning, purchasing and reporting.\n\nSkills:\nPython\n",
     "Jane Doe\n\nProfile:\nshort\n\nI have worked for ten years in logistics and retail companies, and my experience covers planning, purchasing and reporting.\n",
     "Objective\nTo join a team that builds reliable software for hospitals and clinics.\nSkills:\nPython\n"}

\* One call of a function on objects as constructed, from call to return.
FunctionCall(call) ==
    /\ ParserIdle
    /\ calls' = <<call>>
    /\ UNCHANGED <<hash_seed, resume_parser, job_analyzer>>
    /\ UNCHANGED beyondParser

\* skills_matcher.get_skill_priority_ranking(job_requirements, job_text)
GetSkillPriorityRanking(reqs, job_text) ==
    FunctionCall([op |-> "get_skill_priority_ranking", skills |-> reqs, text |-> job_text,
                  result |-> get_skill_priority_ranking(reqs, job_text)])

\* job_analyzer._extract_experience_level(text)
ExtractExperienceLevel(text) ==
    FunctionCall([op |-> "_extract_experience_level", text |-> text,
                  result |-> _extract_experience_level(text)])

\* resume_parser._extract_summary(text)
ExtractSummary(text) ==
    FunctionCall([op |-> "_extract_summary", text |-> text,
                  result |-> _extract_summary(text)])

-----------------------------------------------------------------------------
(* The HTTP handlers of backend/app.py: one request, from its arrival to   *)
(* the response, on the components of lines 36-47.                         *)

\* Config.ALLOWED_EXTENSIONS
ALLOWED_EXTENSIONS == {"pdf", "docx", "doc", "txt"}

\* s.split('.')[-1], which is also s.rsplit('.', 1)[1] when s has a dot
LastPiece(s) == LET parts == split_str(s, ".") IN parts[Len(parts)]

allowed_file(filename) ==
    /\ Contains(".", filename)
    /\ lower(LastPiece(filename)) \in ALLOWED_EXTENSIONS

\* s.strip(chars)
StripChars(s, chars) ==
    LET Kept == { i \in 1..Len(s) : SubSeq(s, i, i) \notin chars }
    IN  IF Kept = {} THEN ""
        ELSE SubSeq(s, CHOOSE i \in Kept : \A k \in Kept : i <= k,
                       CHOOSE i \in Kept : \A k \in Kept : i >= k)

\* werkzeug's secure_filename on ASCII names: the words joined by "_", the
\* characters other than letters, digits, "_", "." and "-" dropped, dots and
\* underscores stripped from both ends.
secure_filename(filename) ==
    LET joined == Join(split_words(replace(filename, "/", " ")), "_")
        kept == SelectSeq(Chars(joined), LAMBDA c : c \in WordChars \cup {".", "-"})
    IN  StripChars(ConcatRange(kept, 1, Len(kept)), {".", "_"})

\* tempfile.mkdtemp(): the directory of the request
TempDir == "/tmp/tmpk3v9x0aq"

\* An uploaded file is its name and what its format holds: the text of its
\* page, paragraphs or characters, and whether a reader of the format can
\* open it at all.
\* _extract_from_pdf: the text of the pages, each followed by a newline
_extract_from_pdf(upload) == strip(upload.text \o "\n")

\* _extract_from_docx: the paragraphs that are not blank, stripped
_extract_from_docx(upload) ==
    LET paragraphs == split_str(upload.text, "\n")
        text_parts == SelectSeq(paragraphs, LAMBDA p : strip(p) # "")
    IN  Join([i \in 1..Len(text_parts) |-> strip(text_parts[i])], "\n")

\* _extract_from_txt: the characters of the file
_extract_from_txt(upload) == upload.text

\* TextExtractor.extract_text: by the extension of the path; None for an
\* extension without extractor and when the extractor raised.
extract_text(file_path, upload) ==
    LET file_extension == LastPiece(lower(file_path))
    IN  IF file_extension \notin {"pdf", "docx", "doc", "txt"} THEN None
        ELSE IF ~upload.readable THEN None
        ELSE IF file_extension = "pdf" THEN _extract_from_pdf(upload)
        ELSE IF file_extension = "txt" THEN _extract_from_txt(upload)
        ELSE _extract_from_docx(upload)

\* InputValidator
job_keywords ==
    <<"position", "role", "responsibilities", "requirements", "experience",
      "skills", "qualifications", "company", "job", "work", "candidate",
      "team", "project">>

resume_keywords ==
    <<"experience", "education", "skills", "work", "university", "college",
      "degree", "project", "achievement", "responsibility">>

MinJobChars == 50
MinResumeChars == 100
MinKeywords == 3

\* sum(1 for keyword in keywords if keyword in text_lower)
keyword_count(keywords, text_lower) ==
    Cardinality({ i \in 1..Len(keywords) : Contains(keywords[i], text_lower) })

validate_job_description(job_text) ==
    /\ Truthy(job_text)
    /\ IsStr(job_text)
    /\ Len(strip(job_text)) >= MinJobChars
    /\ keyword_count(job_keywords, lower(job_text)) >= MinKeywords

validate_resume_text(resume_text) ==
    /\ Truthy(resume_text)
    /\ IsStr(resume_text)
    /\ Len(strip(resume_text)) >= MinResumeChars
    /\ keyword_count(resume_keywords, lower(resume_text)) >= MinKeywords

\* CoverLetterGenerator.generate_cover_letter from call to return, for
\* profiles that are dicts and a provider that answers or raises: the
\* letter of the provider with a credential and an answer, the fallback
\* letter otherwise.
generate_cover_letter(api_key, req, outcome) ==
    IF Truthy(api_key) /\ outcome.kind = "responds"
    THEN _build_response(
             _post_process_cover_letter(outcome.text, req.resume_data, req.job_data),
             req.template_style, req.resume_data, req.job_data)
    ELSE FallbackResponse(req)

\* No request has arrived; no response has been sent.
NoHttpRequest == [endpoint |-> "none"]
NoResponse == [sent |-> FALSE]

HandlersIdle ==
    /\ http_request = NoHttpRequest
    /\ temp_dir = "none"
    /\ trace = <<>>
    /\ response = NoResponse

\* One call of a component made by a handler: its argument and its result.
Call(op, arg, out) == [op |-> op, arg |-> arg, out |-> out]

\* return jsonify({...}), status
Reply(status, success, detail) ==
    [sent |-> TRUE, status |-> status, success |-> success, detail |-> detail]

\* How a handler is left: with the calls of log made, the response sent and
\* the temporary directory in the state dir.
Answer(status, success, detail, log, dir) ==
    [trace |-> log, response |-> Reply(status, success, detail), temp_dir |-> dir]

\* The request is over.
Returns(req, answer) ==
    /\ http_request' = req
    /\ trace' = answer.trace
    /\ response' = answer.response
    /\ temp_dir' = answer.temp_dir

\* shutil.rmtree(temp_dir)
Removed(env) == IF env.rmtree_ok THEN "removed" ELSE "exists"

\* Lines 197-223: the body of the successful response, without its timestamp.
SummaryLimit == 200

response_data(resume_data, job_data, skills_analysis, cover_letter_result, template_style) ==
    [cover_letter |-> cover_letter_result.cover_letter,
     analysis |->
        [resume_data |->
            [contact_info |-> Get(resume_data, "contact_info", EmptyDict),
             skills_count |-> Len(Get(resume_data, "skills", <<>>)),
             experience_count |-> Len(Get(resume_data, "experience", <<>>)),
             education_count |-> Len(Get(resume_data, "education", <<>>)),
             summary |-> IF Len(Get(resume_data, "summary", "")) > SummaryLimit
                         THEN Prefix(Get(resume_data, "summary", ""), SummaryLimit) \o "..."
                         ELSE Get(resume_data, "summary", "")],
         job_data |->
            [job_title |-> Get(job_data, "job_title", ""),
             company_name |-> Get(Get(job_data, "company_info", EmptyDict), "name", ""),
             required_skills_count |-> Len(Get(job_data, "required_skills", <<>>)),
             job_type |-> Get(job_data, "job_type", ""),
             experience_level |-> Get(job_data, "experience_level", "")],
         skills_matching |-> skills_analysis],
     metadata |->
        [template_used |-> Get(cover_letter_result, "template_used", template_style),
         word_count |-> Get(cover_letter_result, "word_count", 0),
         recommendations |-> Get(cover_letter_result, "recommendations", <<>>)]]

\* The try block of generate_cover_letter (lines 151-226) and its finally
\* clause (lines 228-233), which logs a failure of rmtree and goes on.  Each
\* operator is the rest of the block once the values it is given are known.
\* Lines 190-226: the response for the letter result.
AfterGeneration(req, env, log, resume_data, job_data, skills_analysis, call, cover_letter_result) ==
    IF ~Get(cover_letter_result, "success", FALSE)
    THEN Answer(500, FALSE,
                Get(cover_letter_result, "error", "Failed to generate cover letter"),
                Append(log, Call("generate_cover_letter", call, cover_letter_result)),
                Removed(env))
    ELSE Answer(200, TRUE,
                response_data(resume_data, job_data, skills_analysis,
                              cover_letter_result, req.template_style),
                Append(log, Call("generate_cover_letter", call, cover_letter_result)),
                Removed(env))

\* Lines 183-188: generate_cover_letter on the two profiles.
AfterMatching(req, env, log, resume_data, job_data, skills_analysis, call) ==
    AfterGeneration(
        req, env,
        Append(log, Call("get_skill_analysis",
                         <<Get(resume_data, "skills", <<>>),
                           Get(job_data, "required_skills", <<>>)>>,
                         skills_analysis)),
        resume_data, job_data, skills_analysis, call,
        generate_cover_letter(gemini_api_key, call, env.provider))

\* Lines 176-179: get_skill_analysis on the skills of the two profiles.
AfterParsing(req, env, log, resume_text, resume_data, job_data) ==
    AfterMatching(
        req, env,
        log \o <<Call("parse_resume", resume_text, resume_data),
                 Call("analyze_job_description", req.job_description, job_data)>>,
        resume_data, job_data,
        get_skill_analysis(Get(resume_data, "skills", <<>>),
                           Get(job_data, "required_skills", <<>>)),
        [resume_data |-> resume_data, job_data |-> job_data,
         template_style |-> req.template_style,
         custom_message |-> IF Truthy(req.custom_message)
                            THEN req.custom_message ELSE None])

\* Lines 163-172: the gate of validate_resume_text, then the two parsers.
AfterValidation(req, env, log, resume_text, resume_ok) ==
    IF ~resume_ok
    THEN Answer(400, FALSE,
                "Resume content appears to be insufficient. Please upload a more detailed resume.",
                Append(log, Call("validate_resume_text", resume_text, resume_ok)),
                Removed(env))
    ELSE AfterParsing(
             req, env,
             Append(log, Call("validate_resume_text", resume_text, resume_ok)),
             resume_text,
             parse_resume(resume_parser, resume_text, hash_seed),
             analyze_job_description(job_analyzer, req.job_description, hash_seed))

\* Lines 156-163: no text, no pipeline.
AfterExtraction(req, env, log, file_path, resume_text) ==
    IF ~Truthy(resume_text)
    THEN Answer(400, FALSE,
                "Could not extract text from resume. Please ensure the file is not corrupted.",
                Append(log, Call("extract_text", file_path, resume_text)),
                Removed(env))
    ELSE AfterValidation(
             req, env,
             Append(log, Call("extract_text", file_path, resume_text)),
             resume_text, validate_resume_text(resume_text))

\* Lines 151-154: extract_text on the saved file.
GenerateCoverLetterTry(req, env, log, file_path) ==
    AfterExtraction(req, env, log, file_path, extract_text(file_path, req.resume))

\* POST /api/generate-cover-letter (lines 102-241).  template_style and
\* custom_message of the request are the values of request.form.get with
\* its defaults.  resume_file.save (line 149) follows mkdtemp and precedes
\* the try statement of line 151: when it raises, the except clause of line
\* 235 answers.
api_generate_cover_letter(req, env) ==
    IF ~req.has_resume
    THEN Answer(400, FALSE, "No resume file provided", <<>>, "none")
    ELSE IF ~req.has_job_description
    THEN Answer(400, FALSE, "No job description provided", <<>>, "none")
    ELSE IF req.resume.filename = ""
    THEN Answer(400, FALSE, "No resume file selected", <<>>, "none")
    ELSE IF ~allowed_file(req.resume.filename)
    THEN Answer(400, FALSE,
                "File type not allowed. Supported formats: "
                \o Join(list_of_set(<<"pdf", "docx", "doc", "txt">>, hash_seed), ", "),
                <<>>, "none")
    ELSE LET job_ok == validate_job_description(req.job_description)
             log == <<Call("validate_job_description", req.job_description, job_ok)>>
         IN  IF ~job_ok
             THEN Answer(400, FALSE,
                         "Job description is too short or invalid. Please provide a detailed job description.",
                         log, "none")
             ELSE IF ~env.save_ok
             THEN Answer(500, FALSE,
                         "An error occurred while processing your request. Please try again.",
                         log, "exists")
             ELSE GenerateCoverLetterTry(
                      req, env, log,
                      TempDir \o "/" \o secure_filename(req.resume.filename))

ApiGenerateCoverLetter(req, env) ==
    /\ response = NoResponse
    /\ \E answer \in {api_generate_cover_letter(req, env)} : Returns(req, answer)
    /\ UNCHANGED beyondHandlers

\* POST /api/analyze-skills (lines 243-271): get_skill_analysis on the two
\* lists of the JSON body.
api_analyze_skills(req) ==
    IF ~req.has_data \/ ~req.has_resume_skills \/ ~req.has_job_requirements
    THEN Answer(400, FALSE,
                "Missing required fields: resume_skills and job_requirements",
                <<>>, "none")
    ELSE LET skills_analysis ==
                 get_skill_analysis(req.resume_skills, req.job_requirements)
         IN  Answer(200, TRUE, skills_analysis,
                    <<Call("get_skill_analysis",
                           <<req.resume_skills, req.job_requirements>>,
                           skills_analysis)>>,
                    "none")

ApiAnalyzeSkills(req) ==
    /\ response = NoResponse
    /\ \E answer \in {api_analyze_skills(req)} : Returns(req, answer)
    /\ UNCHANGED beyondHandlers

\* POST /api/parse-resume (lines 273-315).  Here the finally clause is the
\* bare rmtree: when it raises, the except clause of line 310 answers.
api_parse_resume(req, env) ==
    IF ~req.has_resume
    THEN Answer(400, FALSE, "No resume file provided", <<>>, "none")
    ELSE IF req.resume.filename = "" \/ ~allowed_file(req.resume.filename)
    THEN Answer(400, FALSE, "Invalid file", <<>>, "none")
    ELSE IF ~env.save_ok
    THEN Answer(500, FALSE, "Failed to parse resume", <<>>, "exists")
    ELSE LET file_path == TempDir \o "/" \o secure_filename(req.resume.filename)
             resume_text == extract_text(file_path, req.resume)
             resume_data == parse_resume(resume_parser, resume_text, hash_seed)
             done == <<Call("extract_text", file_path, resume_text),
                       Call("parse_resume", resume_text, resume_data)>>
         IN  IF env.rmtree_ok
             THEN Answer(200, TRUE, resume_data, done, "removed")
             ELSE Answer(500, FALSE, "Failed to parse resume", done, "exists")

ApiParseResume(req, env) ==
    /\ response = NoResponse
    /\ \E answer \in {api_parse_resume(req, env)} : Returns(req, answer)
    /\ UNCHANGED beyondHandlers

\* POST /api/analyze-job (lines 317-350)
api_analyze_job(req) ==
    IF ~req.has_data \/ ~req.has_job_description
    THEN Answer(400, FALSE, "No job description provided", <<>>, "none")
    ELSE LET job_ok == validate_job_description(req.job_description)
             log == <<Call("validate_job_description", req.job_description, job_ok)>>
             job_data == analyze_job_description(job_analyzer, req.job_description,
                                                 hash_seed)
         IN  IF ~job_ok
             THEN Answer(400, FALSE, "Job description is too short or invalid",
                         log, "none")
             ELSE Answer(200, TRUE, job_data,
                         Append(log, Call("analyze_job_description",
                                          req.job_description, job_data)),
                         "none")

ApiAnalyzeJob(req) ==
    /\ response = NoResponse
    /\ \E answer \in {api_analyze_job(req)} : Returns(req, answer)
    /\ UNCHANGED beyondHandlers

\* The requests and the environments of the handlers.
ResumeText ==
    "Jane Doe\njane@example.org\nSkills:\nPython, SQL\n\nExperience:\nSenior Developer at Initech\n\nEducation:\nBachelor of Science in Physics from MIT\n"

JobText ==
    "Data Analyst\nCompany: Initech\nRequirements:\n- Python, SQL\n- 5+ years of experience with AWS\n"

Upload(filename, readable, text) ==
    [filename |-> filename, readable |-> readable, text |-> text]

Uploads ==
    {Upload("resume.txt", TRUE, ResumeText),
     Upload("Resume.PDF", TRUE, "I know java and aws."),
     Upload("my resume.docx", TRUE, "I know java.\n\n  and aws.  \n"),
     Upload("resume.pdf", FALSE, ""),
     Upload("resume.pdf", TRUE, " \n"),
     Upload("resume.txt", TRUE, ""),
     Upload("resume.txt", TRUE, "I know java and aws.\n"),
     Upload(".txt", TRUE, ResumeText),
     Upload("resume.exe", TRUE, ResumeText),
     Upload("resume", TRUE, ResumeText),
     Upload("", TRUE, "")}

GenerateRequest(has_resume, resume, has_job_description, job_description,
                template_style, custom_message) ==
    [endpoint |-> "/api/generate-cover-letter",
     has_resume |-> has_resume, resume |-> resume,
     has_job_description |-> has_job_description,
     job_description |-> job_description,
     template_style |-> template_style, custom_message |-> custom_message]

GenerateRequests ==
    { GenerateRequest(TRUE, u, TRUE, JobText, "professional", "") : u \in Uploads }
    \cup { GenerateRequest(TRUE, Upload("resume.txt", TRUE, ResumeText), TRUE, j,
                           "professional", "") : j \in {"", "Data Analyst"} }
    \cup { GenerateRequest(FALSE, Upload("", TRUE, ""), TRUE, JobText, "professional", ""),
           GenerateRequest(TRUE, Upload("resume.txt", TRUE, ResumeText), FALSE, "",
                           "professional", ""),
           GenerateRequest(TRUE, Upload("resume.txt", TRUE, ResumeText), TRUE, JobText,
                           "creative", "I can start in May.") }

ParseRequests ==
    { [endpoint |-> "/api/parse-resume", has_resume |-> TRUE, resume |-> u] :
          u \in Uploads }
    \cup { [endpoint |-> "/api/parse-resume", has_resume |-> FALSE,
            resume |-> Upload("", TRUE, "")] }

JobRequests ==
    { [endpoint |-> "/api/analyze-job", has_data |-> TRUE,
       has_job_description |-> TRUE, job_description |-> j] :
          j \in {"", "Data Analyst", JobText} }
    \cup { [endpoint |-> "/api/analyze-job", has_data |-> d,
            has_job_description |-> FALSE, job_description |-> ""] :
               d \in BOOLEAN }

SkillsRequests ==
    { [endpoint |-> "/api/analyze-skills", has_data |-> TRUE,
       has_resume_skills |-> TRUE, has_job_requirements |-> r,
       resume_skills |-> <<"Python", "SQL">>, job_requirements |-> jr] :
          r \in BOOLEAN, jr \in {<<>>, <<"python">>, <<"Python", "AWS", "Go">>} }
    \cup { [endpoint |-> "/api/analyze-skills", has_data |-> FALSE,
            has_resume_skills |-> FALSE, has_job_requirements |-> FALSE,
            resume_skills |-> <<>>, job_requirements |-> <<>>] }

\* What the world does to a request: whether the upload can be written,
\* whether the directory can be removed, and what the provider does.
Env(save_ok, rmtree_ok, provider_outcome) ==
    [save_ok |-> save_ok, rmtree_ok |-> rmtree_ok, provider |-> provider_outcome]

Answered == [kind |-> "responds",
             text |-> "Dear [Company Name] team,\n\nI would like to apply.\n\nSincerely,\n[Your Name]"]
Raised == [kind |-> "raises", text |-> ""]

Envs ==
    {Env(TRUE, TRUE, Answered), Env(TRUE, TRUE, Raised),
     Env(FALSE, TRUE, Answered), Env(TRUE, FALSE, Answered)}

\* The provider has no part in a request that generates no letter.
UploadEnvs == { env \in Envs : env.provider = Answered }

-----------------------------------------------------------------------------
(* Specifications *)

\* One call of get_skill_analysis on every input of MatcherInputs.
InitMatcher ==
    /\ \E input \in MatcherInputs :
           /\ resume_skills = input[1]
           /\ job_requirements = input[2]
    /\ analysis = NoResult
    /\ gemini_api_key = None
    /\ GeneratorIdle
    /\ hash_seed = "insertion"
    /\ ParserIdle
    /\ HandlersIdle

NextMatcher == GetSkillAnalysis

SpecMatcher == InitMatcher /\ [][NextMatcher]_vars

\* Calls of generate_cover_letter on a generator constructed with each
\* credential setting.
InitGenerator ==
    /\ MatcherIdle
    /\ gemini_api_key \in ApiKeys
    /\ GeneratorIdle
    /\ hash_seed = "insertion"
    /\ ParserIdle
    /\ HandlersIdle

NextGenerator ==
    \/ \E resume_data \in Resumes \cup {NullProfile},
          job_data \in Jobs \cup {NullProfile},
          template_style \in Styles, custom_message \in CustomMessages :
           GenerateCoverLetter(resume_data, job_data, template_style, custom_message)
    \/ \E text \in ProviderTexts : ProviderResponds(text)
    \/ \E kind \in FailureKinds : ProviderFails(kind)
    \/ ProviderHangs
    \/ NextCall

SpecGenerator == InitGenerator /\ [][NextGenerator]_vars

\* Lines 40-46 as one step of the call: the statement that waits for the
\* provider is left, by the return of line 44 or by the handler of line 45.
ProviderCallEnds ==
    /\ pc = "provider"
    /\ provider = "pending"
    /\ pc' = "returned"

\* The same, where a provider that can still answer or fail does so in the
\* end.  Nothing in the program makes a provider that hangs answer.
SpecGeneratorFair == SpecGenerator /\ WF_pc(ProviderCallEnds)

\* A process with any hash seed, its parser and analyzer just constructed.
InitParser ==
    /\ MatcherIdle
    /\ gemini_api_key = None
    /\ GeneratorIdle
    /\ hash_seed \in HashSeeds
    /\ ParserIdle
    /\ HandlersIdle

NextParser ==
    \/ \E text \in ResumeTexts : ParseResume(text)
    \/ \E job_text \in JobTexts : AnalyzeJobDescription(job_text)

SpecParser == InitParser /\ [][NextParser]_vars

\* One request to one of the handlers of a process with any hash seed and
\* with or without a credential.
InitHandlers ==
    /\ MatcherIdle
    /\ gemini_api_key \in {None, "key-123"}
    /\ GeneratorIdle
    /\ hash_seed \in HashSeeds
    /\ ParserIdle
    /\ HandlersIdle

NextHandlers ==
    \/ \E req \in GenerateRequests, env \in Envs : ApiGenerateCoverLetter(req, env)
    \/ \E req \in SkillsRequests : ApiAnalyzeSkills(req)
    \/ \E req \in ParseRequests, env \in UploadEnvs : ApiParseResume(req, env)
    \/ \E req \in JobRequests : ApiAnalyzeJob(req)

SpecHandlers == InitHandlers /\ [][NextHandlers]_vars

\* The matcher, the parser and the analyzer just constructed.
InitFunctions ==
    /\ MatcherIdle
    /\ gemini_api_key = None
    /\ GeneratorIdle
    /\ hash_seed = "insertion"
    /\ ParserIdle
    /\ HandlersIdle

\* One call of one of the three functions, on every input listed for it.
NextFunctions ==
    \/ \E reqs \in RankingLists, job_text \in RankingTexts :
           GetSkillPriorityRanking(reqs, job_text)
    \/ \E text \in LevelTexts : ExtractExperienceLevel(text)
    \/ \E text \in SummaryTexts : ExtractSummary(text)

SpecFunctions == InitFunctions /\ [][NextFunctions]_vars

\* All components together.
Init == InitMatcher \/ InitGenerator \/ InitParser \/ InitHandlers \/ InitFunctions

Next == NextMatcher \/ NextGenerator \/ NextParser \/ NextHandlers \/ NextFunctions

Spec == Init /\ [][Next]_vars

-----------------------------------------------------------------------------
(* Properties of get_skill_analysis, under SpecMatcher *)

Abs(x) == IF x < 0 THEN -x ELSE x

\* C1: for every candidate list and every required list, duplicates
\* included, the match_score returned is 100 * len(matching_skills) /
\* len(job_requirements) rounded to one decimal (in tenths: no other tenth is
\* nearer to the quotient), it is 0 when the required list is empty, and it
\* lies between 0 and 100.
C1_MatchScoreIsRoundedShare ==
    analysis.returned =>
        LET m == Len(analysis.matching_skills)
            n == Len(job_requirements)
            score == analysis.match_score
        IN  /\ score \in 0..1000
            /\ n = 0 => score = 0
            /\ n > 0 => 2 * Abs(n * score - 1000 * m) <= n

\* Two of three required skills matched, one of them listed twice: 66.7.
C1_Witness ==
    /\ analysis.returned
    /\ Len(job_requirements) = 3
    /\ Cardinality(SetOf(job_requirements)) = 2
    /\ analysis.match_score = 667

\* C2: matching_skills and missing_skills partition the required skills: as
\* sets their union is the set of required skills, in their original casing,
\* and no skill is in both.
C2_MatchingAndMissingPartition ==
    analysis.returned =>
        /\ SetOf(analysis.matching_skills) \cup SetOf(analysis.missing_skills)
               = SetOf(job_requirements)
        /\ SetOf(analysis.matching_skills) \cap SetOf(analysis.missing_skills) = {}

\* Both parts are non-empty and the required list holds one skill in two
\* casings.
C2_Witness ==
    /\ analysis.returned
    /\ analysis.matching_skills # <<>>
    /\ analysis.missing_skills # <<>>
    /\ \E i, k \in 1..Len(job_requirements) :
           /\ job_requirements[i] # job_requirements[k]
           /\ lower(job_requirements[i]) = lower(job_requirements[k])

\* C3: candidate skills {"Python", "SQL"} against required skills
\* ["Python", "AWS", "SQL"] give matching_skills ["Python", "SQL"],
\* missing_skills ["AWS"] and match_score 66.7; "AWS" is matched by none of
\* the three rules.
C3_DesignExample ==
    (/\ analysis.returned
     /\ SetOf(resume_skills) = {"Python", "SQL"}
     /\ job_requirements = <<"Python", "AWS", "SQL">>)
    => /\ analysis.matching_skills = <<"Python", "SQL">>
       /\ analysis.missing_skills = <<"AWS">>
       /\ analysis.match_score = 667
       /\ LET resume_skills_lower ==
                  [i \in 1..Len(resume_skills) |-> lower(resume_skills[i])]
          IN  /\ ~InList("aws", resume_skills_lower)
              /\ ~_check_synonym_match("aws", resume_skills_lower)
              /\ ~_check_fuzzy_match("aws", resume_skills_lower)

C3_Witness ==
    /\ analysis.returned
    /\ resume_skills = <<"Python", "SQL">>
    /\ job_requirements = <<"Python", "AWS", "SQL">>

\* The candidate skills as the matcher compares them.
ResumeSkillsLower == [i \in 1..Len(resume_skills) |-> lower(resume_skills[i])]

\* Two skills are members of one group of the synonym table.
SameGroup(a, b) ==
    \E n \in 1..Len(skill_synonyms) : a \in Members(n) /\ b \in Members(n)

\* C4: synonym matching works in both directions and without regard to
\* case: a required skill is matched whenever some candidate skill is a
\* member (main skill or synonym) of a group of the synonym table that the
\* required skill is a member of; "js" matches {"javascript"} and
\* "javascript" matches {"js"}.
C4_SynonymsMatchBothWays ==
    analysis.returned =>
        /\ \A i \in 1..Len(job_requirements) :
               (\E k \in 1..Len(resume_skills) :
                    SameGroup(lower(job_requirements[i]), lower(resume_skills[k])))
               => InList(job_requirements[i], analysis.matching_skills)
        /\ (resume_skills = <<"javascript">> /\ job_requirements = <<"js">>)
               => analysis.matching_skills = <<"js">>
        /\ (resume_skills = <<"js">> /\ job_requirements = <<"javascript">>)
               => analysis.matching_skills = <<"javascript">>

\* The main skill is required and only a synonym of it is offered: no other
\* rule matches them.
C4_Witness ==
    /\ analysis.returned
    /\ resume_skills = <<"JS">>
    /\ job_requirements = <<"javascript">>
    /\ analysis.matching_skills = <<"javascript">>
    /\ MatchRule("javascript", <<"js">>) = "synonym"

\* C5: a required skill that has no exact and no synonym match is matched
\* if and only if some candidate skill, case-folded, contains it, is
\* contained in it, or has a similarity ratio with it of at least 0.8; "Java"
\* matches {"JavaScript"} by containment and "Postgre SQL" matches
\* {"PostgreSQL"} by the ratio.
C5_FuzzyRule ==
    analysis.returned =>
        /\ \A i \in 1..Len(job_requirements) :
               LET req == lower(job_requirements[i])
                   Similar(c) == LET p == ratio(req, c) IN 5 * p[1] >= 4 * p[2]
               IN  (/\ ~InList(req, ResumeSkillsLower)
                    /\ \A k \in 1..Len(resume_skills) :
                           ~SameGroup(req, ResumeSkillsLower[k]))
                   => (InList(job_requirements[i], analysis.matching_skills)
                       <=> \E k \in 1..Len(resume_skills) :
                               \/ Contains(req, ResumeSkillsLower[k])
                               \/ Contains(ResumeSkillsLower[k], req)
                               \/ Similar(ResumeSkillsLower[k]))
        /\ (resume_skills = <<"JavaScript">> /\ job_requirements = <<"Java">>)
               => /\ analysis.matching_skills = <<"Java">>
                  /\ Contains("java", "javascript")
        /\ (resume_skills = <<"PostgreSQL">> /\ job_requirements = <<"Postgre SQL">>)
               => /\ analysis.matching_skills = <<"Postgre SQL">>
                  /\ ~Contains("postgre sql", "postgresql")
                  /\ ~Contains("postgresql", "postgre sql")

\* One required skill is matched by the ratio alone, one because the
\* candidate skill contains it, and one by nothing.
C5_Witness ==
    /\ analysis.returned
    /\ resume_skills = <<"Docker">>
    /\ job_requirements = <<"Rocker", "Dock", "Podman">>
    /\ analysis.matching_skills = <<"Rocker", "Dock">>
    /\ MatchRule("Dock", <<"docker">>) = "fuzzy"

\* The first position of ys after start that holds x, Len(ys) + 1 when there
\* is none.
NextAt(x, ys, start) ==
    IF start < Len(ys) /\ ys[start + 1] = x THEN start + 1
    ELSE LET later == { j \in (start + 1)..Len(ys) : ys[j] = x }
         IN  IF later = {} THEN Len(ys) + 1 ELSE Min(later)

\* The position of ys reached when xs[lo..hi] are found one after the other,
\* each at the first position after the one before, from start on.
RECURSIVE FoundUpTo(_, _, _, _, _)
FoundUpTo(xs, ys, lo, hi, start) ==
    IF lo = hi THEN NextAt(xs[lo], ys, start)
    ELSE LET mid == (lo + hi) \div 2
             reached == FoundUpTo(xs, ys, lo, mid, start)
         IN  IF reached > Len(ys) THEN reached
             ELSE FoundUpTo(xs, ys, mid + 1, hi, reached)

\* xs is ys with some entries left out.
IsSubsequence(xs, ys) ==
    xs = <<>> \/ FoundUpTo(xs, ys, 1, Len(xs), 0) <= Len(ys)

Count(x, xs) == Cardinality({ i \in 1..Len(xs) : xs[i] = x })

\* C6: matching_skills and missing_skills are subsequences of the required
\* list, so that every entry keeps its casing and the entries keep their
\* order, and a required skill is in matching_skills no more often than it
\* is in the required list, whatever number of rules match it.
C6_OrderAndCasingKept ==
    analysis.returned =>
        /\ IsSubsequence(analysis.matching_skills, job_requirements)
        /\ IsSubsequence(analysis.missing_skills, job_requirements)
        /\ \A x \in SetOf(job_requirements) :
               Count(x, analysis.matching_skills) <= Count(x, job_requirements)

\* The three rules all match one required skill, which is listed once and
\* matched once, and another required skill is missing.
C6_Witness ==
    /\ analysis.returned
    /\ analysis.missing_skills # <<>>
    /\ \E i \in 1..Len(job_requirements) :
           LET req == lower(job_requirements[i])
           IN  /\ InList(req, ResumeSkillsLower)
               /\ _check_synonym_match(req, ResumeSkillsLower)
               /\ _check_fuzzy_match(req, ResumeSkillsLower)
               /\ Count(job_requirements[i], job_requirements) = 1
               /\ Count(job_requirements[i], analysis.matching_skills) = 1

-----------------------------------------------------------------------------
(* Properties of generate_cover_letter, under SpecGenerator *)

\* The profile has an extracted name.
HasName(resume_data) ==
    /\ "contact_info" \in DOMAIN resume_data
    /\ "name" \in DOMAIN resume_data.contact_info
    /\ Truthy(resume_data.contact_info.name)

\* C7: without a credential, generate_cover_letter returns success = true
\* and a non-empty cover letter for every profile, style and custom message,
\* and the letter contains the candidate's name when the profile has one.
C7_FallbackWithoutCredential ==
    (pc = "returned" /\ ~Truthy(gemini_api_key)) =>
        /\ result.returned
        /\ result.success = TRUE
        /\ result.cover_letter # ""
        /\ HasName(request.resume_data)
               => Contains(request.resume_data.contact_info.name, result.cover_letter)

\* A letter for a profile with a name, an unknown style and a custom
\* message, from a generator without a credential.
C7_Witness ==
    /\ pc = "returned"
    /\ gemini_api_key = None
    /\ request.resume_data = ResumeJane
    /\ request.template_style = "formal"
    /\ Truthy(request.custom_message)
    /\ result.returned

\* C8: when anything raises in the provider attempt (the call, reading the
\* response text, post-processing), the exception does not leave
\* generate_cover_letter: the call returns success = true with the letter of
\* the fallback template.
C8_ProviderFailureFallsBack ==
    failure # None =>
        /\ pc = "returned"
        /\ result.returned
        /\ result.success = TRUE
        /\ result.cover_letter =
               _internal_fallback_cover_letter(request.resume_data, request.job_data,
                                               request.custom_message)

\* Reading response.text raised, with a credential configured.
C8_Witness ==
    /\ failure = "response.text"
    /\ Truthy(gemini_api_key)
    /\ pc = "returned"
    /\ request.resume_data = ResumeJane
    /\ request.job_data = JobAcme

\* The number of generate_content invocations a call has made or will have
\* made once it is past the credential test.
CallsExpected == IF Truthy(gemini_api_key) THEN 1 ELSE 0

C10_ProviderCallIsBounded == [](pc = "provider" => <>(pc = "returned"))

\* A call that invoked the service and waits for a provider that hangs.
C10_Witness ==
    /\ pc = "provider"
    /\ provider = "hung"
    /\ provider_calls = 1
    /\ ~result.returned

\* The keys of self.templates.
KnownStyles == {"professional", "creative", "technical", "entry_level"}

\* C11: for a style that is not one of professional, creative, technical,
\* entry_level the call builds exactly the prompt of the professional
\* template for the same resume, job and custom message, and a call that
\* has returned has returned a letter.
C11_UnknownStyleIsProfessional ==
    (pc \notin {"idle", "raised"} /\ request.template_style \notin KnownStyles)
        => /\ prompt = _professional_template(request.resume_data,
                           request.job_data, request.custom_message)
           /\ pc = "returned" => (result.returned /\ result.success)

\* A call with the style "formal" has returned a letter; the prompt it built
\* is not the prompt of another style's template.
C11_Witness ==
    /\ pc = "returned"
    /\ request.template_style = "formal"
    /\ request.resume_data = ResumeJane
    /\ result.success
    /\ prompt # ""
    /\ prompt # _creative_template(request.resume_data, request.job_data,
                                   request.custom_message)

\* Some required skill of the job is no skill of the resume, compared
\* case-insensitively.
SomeRequiredSkillAbsent(resume_data, job_data) ==
    LET rs == Get(resume_data, "skills", <<>>)
        js == Get(job_data, "required_skills", <<>>)
    IN  \E j \in 1..Len(js) : \A i \in 1..Len(rs) : lower(rs[i]) # lower(js[j])

\* C12: the recommendations of a letter result are the same on the provider
\* path and on the fallback path: on both they are the suggestions computed
\* from the resume and the job alone, with a missing-skill suggestion exactly
\* when a required skill is absent from the resume skills (case-insensitive),
\* an experience suggestion exactly when the experience list is empty and an
\* education suggestion exactly when the education list is empty.
C12_RecommendationsPathIndependent ==
    (pc = "returned" /\ result.returned /\ "recommendations" \in DOMAIN result) =>
        LET recs == result.recommendations
            Has(text) == \E k \in 1..Len(recs) : recs[k] = text
        IN  /\ recs = _generate_improvement_suggestions(request.resume_data,
                                                        request.job_data)
            /\ (\E k \in 1..Len(recs) :
                    StartsWith(recs[k], "Consider highlighting experience with: "))
                   <=> SomeRequiredSkillAbsent(request.resume_data, request.job_data)
            /\ Has("Consider adding more specific work experience examples")
                   <=> Get(request.resume_data, "experience", <<>>) = <<>>
            /\ Has("Ensure educational background is clearly stated")
                   <=> Get(request.resume_data, "education", <<>>) = <<>>

\* The fallback path, taken after a provider failure, has returned the
\* suggestions for a resume without experience and a job with a required
\* skill the resume lacks.
C12_Witness ==
    /\ pc = "returned"
    /\ failure # None
    /\ request.resume_data = ResumeBare
    /\ request.job_data = JobBare
    /\ Len(result.recommendations) = 3

-----------------------------------------------------------------------------
(* Claims about the parser and the analyzer *)

\* The keys of a resume profile and of a job profile.
ResumeFields == {"contact_info", "skills", "experience", "education",
                 "summary", "projects"}
ContactFields == {"email", "phone", "name", "linkedin", "github"}
JobFields == {"company_info", "job_title", "required_skills",
              "preferred_skills", "responsibilities", "qualifications",
              "benefits", "job_type", "experience_level", "key_requirements"}
CompanyFields == {"name", "description", "industry"}

\* C13: parse_resume and analyze_job_description never raise: every call,
\* whatever its input, returns a profile with every field present, and the
\* resume profile of the empty string has all contact fields null, no
\* skills, experience, education or projects and the summary
\* "No summary available".
C13_ParsersNeverRaise ==
    \A k \in 1..Len(calls) :
        /\ calls[k].op = "parse_resume" =>
               /\ DOMAIN calls[k].result = ResumeFields
               /\ DOMAIN calls[k].result.contact_info = ContactFields
        /\ calls[k].op = "analyze_job_description" =>
               /\ DOMAIN calls[k].result = JobFields
               /\ DOMAIN calls[k].result.company_info = CompanyFields
        /\ (calls[k].op = "parse_resume" /\ calls[k].text = "") =>
               calls[k].result =
                   [contact_info |-> [email |-> None, phone |-> None,
                                      name |-> None, linkedin |-> None,
                                      github |-> None],
                    skills |-> <<>>, experience |-> <<>>, education |-> <<>>,
                    summary |-> "No summary available", projects |-> <<>>]

\* The parser was called on the empty string, on no string at all and on a
\* resume with skills, and the analyzer on no string at all.
C13_Witness ==
    /\ Len(calls) = 3
    /\ calls[1].op = "parse_resume" /\ calls[1].text = ""
    /\ calls[1].result.summary = "No summary available"
    /\ calls[2].op = "analyze_job_description" /\ calls[2].text = None
    /\ calls[2].result.job_title = "Not specified"
    /\ calls[3].op = "parse_resume" /\ calls[3].text = None
    /\ calls[3].result.summary = "Unable to parse resume content"

-----------------------------------------------------------------------------
(* Properties of the HTTP handlers, under SpecHandlers *)

\* The handlers that save the upload in a temporary directory.
UploadEndpoints == {"/api/generate-cover-letter", "/api/parse-resume"}

\* C15: in the /api/generate-cover-letter and /api/parse-resume handlers the
\* temporary directory created for the upload no longer exists when the
\* handler returns, on every exit path: normal return, early 400 return and
\* any exception raised after the directory was created, a failure of
\* resume_file.save included.
C15_TempDirGoneOnReturn ==
    (response.sent /\ http_request.endpoint \in UploadEndpoints)
        => temp_dir # "exists"

\* resume_file.save raised in a handler: the response is the 500 of the
\* outer except clause, no text was extracted, and the directory of mkdtemp
\* is still there.
C15_Witness ==
    /\ response.sent
    /\ http_request.endpoint \in UploadEndpoints
    /\ response.status = 500
    /\ \A k \in 1..Len(trace) : trace[k].op # "extract_text"
    /\ temp_dir = "exists"

\* C16: whenever text extraction returns null or empty text the request
\* halts before entity extraction: in every handler that extracts text from
\* an upload, parse_resume is never called with a failed extraction result
\* and the response is a failure.
C16_FailedExtractionHalts ==
    \A k \in 1..Len(trace) :
        (trace[k].op = "extract_text" /\ ~Truthy(trace[k].out))
        => /\ ~response.success
           /\ \A j \in 1..Len(trace) : trace[j].op # "parse_resume"

\* /api/parse-resume answered 200 with success for an upload whose
\* extraction returned None or no text: parse_resume was called with it.
C16_Witness ==
    /\ response.sent
    /\ http_request.endpoint = "/api/parse-resume"
    /\ Len(trace) = 2
    /\ trace[1].op = "extract_text"
    /\ trace[1].out \in {None, ""}
    /\ trace[2].op = "parse_resume"
    /\ trace[2].arg = trace[1].out
    /\ response.status = 200
    /\ response.success

\* The calls of the pipeline: extraction of the profiles, matching,
\* generation.
PipelineOps ==
    {"parse_resume", "analyze_job_description", "get_skill_analysis",
     "generate_cover_letter"}

\* Before call k the validator accepted the text.
AcceptedBefore(validator, text, k) ==
    \E j \in 1..(k - 1) :
        /\ trace[j].op = validator
        /\ trace[j].arg = text
        /\ trace[j].out

\* C19: minimum-content gating precedes the pipeline in every HTTP handler:
\* parse_resume is called only after validate_resume_text accepted the
\* extracted text, analyze_job_description only after
\* validate_job_description accepted the job text, and a rejected input
\* ends the request with a failure response and no extraction, matching or
\* generation call.
C19_GatingPrecedesPipeline ==
    /\ \A k \in 1..Len(trace) :
           trace[k].op = "parse_resume"
           => AcceptedBefore("validate_resume_text", trace[k].arg, k)
    /\ \A k \in 1..Len(trace) :
           trace[k].op = "analyze_job_description"
           => AcceptedBefore("validate_job_description", trace[k].arg, k)
    /\ \A j \in 1..Len(trace) :
           (/\ trace[j].op \in {"validate_resume_text", "validate_job_description"}
            /\ ~trace[j].out)
           => /\ ~response.success
              /\ \A k \in 1..Len(trace) : trace[k].op \notin PipelineOps

\* /api/parse-resume parsed a text that validate_resume_text rejects, without
\* asking it, and answered with success.
C19_Witness ==
    /\ response.sent
    /\ response.success
    /\ http_request.endpoint = "/api/parse-resume"
    /\ \E k \in 1..Len(trace) :
           /\ trace[k].op = "parse_resume"
           /\ Truthy(trace[k].arg)
           /\ ~validate_resume_text(trace[k].arg)
    /\ \A j \in 1..Len(trace) : trace[j].op # "validate_resume_text"

-----------------------------------------------------------------------------
(* The shared components across calls, under SpecParser *)

\* What the call returns when it is the only call ever made on components
\* as constructed.
Alone(call) ==
    IF call.op = "parse_resume"
    THEN parse_resume(ResumeParserInit, call.text, hash_seed)
    ELSE analyze_job_description(JobAnalyzerInit, call.text, hash_seed)

-----------------------------------------------------------------------------
(* generate_cover_letter on profiles that are no dicts, under SpecGenerator *)

\* C18: generate_cover_letter always returns a letter result and never
\* raises: success=true with the letter text for well-formed profiles and,
\* when a profile is null, success=false with an error detail and no letter
\* text.
C18_AlwaysReturnsLetterResult ==
    /\ pc # "raised"
    /\ pc = "returned"
       => IF IsDict(request.resume_data) /\ IsDict(request.job_data)
          THEN result.success /\ "cover_letter" \in DOMAIN result
          ELSE /\ ~result.success
               /\ "error" \in DOMAIN result
               /\ "cover_letter" \notin DOMAIN result

\* generate_cover_letter was called with a null profile: the AttributeError
\* of the template left the call, nothing was returned.
C18_Witness ==
    /\ pc = "raised"
    /\ ~IsDict(request.resume_data) \/ ~IsDict(request.job_data)
    /\ ~result.returned
    /\ result.exception = "AttributeError"

\* One percent of match_score in the unit of the bands (tenths of the 0..1
\* score), as tenths of a percent: 0.3 is 30.0%.
BandPercentTenths(tenths) == 100 * tenths

\* C20: the recommendations of get_skill_analysis are banded on the reported
\* match_score percentage: first the 'gain more required skills' message
\* below 30, the 'transferable experience' message from 30 to below 60, the
\* 'emphasize relevant experience' message from 60 on; then a 'Consider
\* learning' entry with the first three missing skills exactly when some
\* skill is missing; then the congratulatory entry exactly when the
\* percentage is above 80.
C20_BandsOnReportedPercentage ==
    analysis.returned =>
        analysis.recommendations =
            (IF analysis.match_score < BandPercentTenths(LowBandTenths)
             THEN <<"Consider gaining more of the required skills before applying">>
             ELSE IF analysis.match_score < BandPercentTenths(MidBandTenths)
             THEN <<"You have some matching skills. Consider highlighting transferable experience">>
             ELSE <<"Strong skill match! Emphasize your relevant experience">>)
            \o (IF analysis.missing_skills # <<>>
                THEN <<"Consider learning: "
                       \o Join(Take(analysis.missing_skills, TopMissing), ", ")>>
                ELSE <<>>)
            \o (IF analysis.match_score > BandPercentTenths(ExcellentTenths)
                THEN <<"Excellent match! You're well-qualified for this position">>
                ELSE <<>>)

\* get_skill_analysis returned for 62 matched skills of 207 required ones:
\* the reported percentage is 30.0 and the first recommendation is the one
\* of the band below 30.
C20_Witness ==
    /\ analysis.returned
    /\ analysis.total_matched = 62
    /\ analysis.total_required = 207
    /\ analysis.match_score = BandPercentTenths(LowBandTenths)
    /\ Head(analysis.recommendations)
           = "Consider gaining more of the required skills before applying"

\* C28: the template_used field of a letter result names the template that
\* built the prompt: it is one of professional, creative, technical,
\* entry_level, and it is professional when the requested style is none of
\* the four.
C28_TemplateUsedNamesTheTemplate ==
    (pc = "returned" /\ result.returned) =>
        /\ result.template_used \in KnownStyles
        /\ request.template_style \notin KnownStyles
               => result.template_used = "professional"

\* A call with the style "formal" has returned: the professional template
\* built its prompt and the result names "formal".
C28_Witness ==
    /\ pc = "returned"
    /\ result.returned
    /\ result.success
    /\ request.template_style = "formal"
    /\ prompt = _professional_template(request.resume_data, request.job_data,
                                       request.custom_message)
    /\ result.template_used = "formal"

\* C30: every result with success=true carries a cover letter that is not
\* empty, on the provider path as well: for an empty or whitespace-only
\* provider text the fallback letter is returned.
C30_SuccessHasLetterText ==
    (pc = "returned" /\ result.returned /\ result.success) =>
        /\ result.cover_letter # ""
        /\ result.word_count > 0

\* The provider was invoked and answered, nothing was raised, and the result
\* is a success with an empty letter of no words.
C30_Witness ==
    /\ pc = "returned"
    /\ provider_calls = 1
    /\ failure = None
    /\ result.returned
    /\ result.success
    /\ result.cover_letter = ""
    /\ result.word_count = 0

\* The dict d has the group (contact_info, company_info) with a name field
\* that is null: what the extractors return when they find no name.
NameIsNull(d, group) ==
    /\ IsDict(d)
    /\ group \in DOMAIN d
    /\ "name" \in DOMAIN d[group]
    /\ d[group].name = None

\* The letter was built by the fallback template: no provider was invoked,
\* or the provider failed.
OnFallbackPath == pc = "returned" /\ result.returned /\ (provider_calls = 0 \/ failure # None)

\* C29: when the name fields of the profiles are present with a null value,
\* the fallback letter and the prompts use the default placeholders
\* ("Applicant", "your company") and do not render the null value as text.
C29_NullNamesUseDefaults ==
    /\ (OnFallbackPath /\ NameIsNull(request.resume_data, "contact_info"))
           => /\ Contains("Sincerely,\nApplicant", result.cover_letter)
              /\ ~Contains("Sincerely,\nNone", result.cover_letter)
    /\ (OnFallbackPath /\ NameIsNull(request.job_data, "company_info"))
           => /\ Contains("Dear Hiring Manager at your company,", result.cover_letter)
              /\ ~Contains("Dear Hiring Manager at None,", result.cover_letter)
    /\ (pc \notin {"idle", "raised"} /\ NameIsNull(request.resume_data, "contact_info"))
           => ~Contains(" for None applying", prompt)
    /\ (pc \notin {"idle", "raised"} /\ NameIsNull(request.job_data, "company_info"))
           => ~Contains(" at None.", prompt)

\* The fallback letter for the profiles the extractors return when they find
\* nothing: it is addressed to "None" and signed "None".
C29_Witness ==
    /\ OnFallbackPath
    /\ request.resume_data = ResumeEmpty
    /\ request.job_data = JobEmpty
    /\ Contains("Dear Hiring Manager at None,", result.cover_letter)
    /\ Contains("Sincerely,\nNone", result.cover_letter)

\* The entries of xs after the first n that are not among the first n.
Beyond(xs, n) == SetOf(SubSeq(xs, n + 1, Len(xs))) \ SetOf(Take(xs, n))

\* C23: for each of the four styles the prompt holds at most the first 8
\* resume skills, the first 3 experience entries, the first 3 projects and
\* the first 5 responsibilities, an experience description cut to 100
\* characters and a project description cut to 80, however long the lists
\* of the profiles are.
C23_PromptSlicesAreBounded ==
    (pc \notin {"idle", "raised"} /\ request.template_style \in KnownStyles) =>
        LET skills == Get(request.resume_data, "skills", <<>>)
            experience == Get(request.resume_data, "experience", <<>>)
            projects == Get(request.resume_data, "projects", <<>>)
            responsibilities == Get(request.job_data, "responsibilities", <<>>)
        IN  /\ \A skill \in Beyond(skills, PromptSkills) : ~Contains(skill, prompt)
            /\ \A exp \in Beyond(experience, PromptExperience) :
                   ~Contains(exp.title \o " at " \o exp.company, prompt)
            /\ \A project \in Beyond(projects, PromptProjects) :
                   ~Contains(project.name \o ": ", prompt)
            /\ \A item \in Beyond(responsibilities, PromptResponsibilities) :
                   ~Contains(item, prompt)
            /\ \A exp \in SetOf(experience) :
                   Len(exp.description) > ExperienceChars
                       => ~Contains(Prefix(exp.description, ExperienceChars + 1), prompt)
            /\ \A project \in SetOf(projects) :
                   Len(project.description) > ProjectChars
                       => ~Contains(Prefix(project.description, ProjectChars + 1), prompt)

\* The prompt of the technical style for a resume with nine skills holds the
\* ninth.
C23_Witness ==
    /\ pc \notin {"idle", "raised"}
    /\ request.template_style = "technical"
    /\ request.resume_data = ResumeJane
    /\ Len(request.resume_data.skills) > PromptSkills
    /\ Contains(request.resume_data.skills[PromptSkills + 1], prompt)

\* new.join(s.split(old)): s with every occurrence of old replaced by new and
\* everything between the occurrences kept.
Substituted(s, old, new) == Join(split_str(s, old), new)

\* C24: the letter of a provider text is the text without its leading and
\* trailing whitespace, with every "[Your Name]" replaced by the candidate
\* name when there is one and every "[Company Name]" by the company name
\* when there is one, the placeholder left in place otherwise and nothing
\* else altered; word_count is the number of whitespace-delimited tokens of
\* that letter.
C24_PostProcessedLetter ==
    (pc = "returned" /\ provider_calls = 1 /\ failure = None /\ result.returned) =>
        LET name == GetOrNone(Get(request.resume_data, "contact_info", EmptyDict), "name")
            company_name == GetOrNone(Get(request.job_data, "company_info", EmptyDict), "name")
            Named(text) == IF Truthy(name)
                           THEN Substituted(strip(text), "[Your Name]", name)
                           ELSE strip(text)
            Letter(text) == IF Truthy(company_name)
                            THEN Substituted(Named(text), "[Company Name]", company_name)
                            ELSE Named(text)
            letter == result.cover_letter
        IN  /\ \E text \in ProviderTexts : letter = Letter(text)
            /\ letter # "" => /\ ~IsSpace(SubSeq(letter, 1, 1))
                              /\ ~IsSpace(SubSeq(letter, Len(letter), Len(letter)))
            /\ Truthy(name) => ~Contains("[Your Name]", letter)
            /\ Truthy(company_name) => ~Contains("[Company Name]", letter)
            /\ result.word_count = Len(split_words(letter))

\* A provider text with two name placeholders and whitespace around it was
\* returned for a resume with a name and a job without a company name.
C24_Witness ==
    /\ pc = "returned"
    /\ provider_calls = 1
    /\ failure = None
    /\ request.resume_data = ResumeJane
    /\ request.job_data = JobBare
    /\ result.cover_letter = "Hello, this is Jane Doe. Regards, Jane Doe"
    /\ result.word_count = 8

\* C27: in every result of get_skill_analysis, also for a required list with
\* duplicates, total_required is the length of the required list,
\* total_matched the length of matching_skills, total_matched plus the
\* length of missing_skills is total_required, and technical_skills and
\* soft_skills hold entries of matching_skills only.
C27_TotalsAreConsistent ==
    analysis.returned =>
        /\ analysis.total_required = Len(job_requirements)
        /\ analysis.total_matched = Len(analysis.matching_skills)
        /\ analysis.total_matched + Len(analysis.missing_skills) = analysis.total_required
        /\ \A k \in 1..Len(analysis.technical_skills) :
               InList(analysis.technical_skills[k], analysis.matching_skills)
        /\ \A k \in 1..Len(analysis.soft_skills) :
               InList(analysis.soft_skills[k], analysis.matching_skills)

\* A required list that names one skill twice and another once: the skill
\* named twice is matched twice and is technical, the other is missing.
C27_Witness ==
    /\ analysis.returned
    /\ \E i, k \in 1..Len(job_requirements) :
           i < k /\ job_requirements[i] = job_requirements[k]
                 /\ InList(job_requirements[i], analysis.technical_skills)
    /\ analysis.total_matched = 2
    /\ Len(analysis.missing_skills) = 1
    /\ analysis.total_required = 3

\* Skills a candidate list is extended by: spellings of one skill, a synonym,
\* unrelated skills and the empty skill.
ExtraSkills == {"python", "py", "AWS", "JavaScript", ""}

\* C26: matching is monotone in the candidate skills: with a skill added to
\* the candidate list, at its end or at its front, every required skill
\* that was matched is matched, every required skill that is missing was
\* missing and match_score is not lower; with an empty candidate list
\* nothing matches and match_score is 0.
C26_MatchingIsMonotone ==
    analysis.returned =>
        /\ \A extra \in ExtraSkills :
               \A more \in {get_skill_analysis(Append(resume_skills, extra), job_requirements),
                            get_skill_analysis(<<extra>> \o resume_skills, job_requirements)} :
                   /\ \A i \in 1..Len(job_requirements) :
                          /\ InList(job_requirements[i], analysis.matching_skills)
                                 => InList(job_requirements[i], more.matching_skills)
                          /\ InList(job_requirements[i], more.missing_skills)
                                 => InList(job_requirements[i], analysis.missing_skills)
                   /\ more.match_score >= analysis.match_score
        /\ \A none \in {get_skill_analysis(<<>>, job_requirements)} :
               /\ none.matching_skills = <<>>
               /\ none.missing_skills = job_requirements
               /\ none.match_score = 0

\* A candidate list that matches one required skill and misses another,
\* which a skill of ExtraSkills matches once it is added.
C26_Witness ==
    /\ analysis.returned
    /\ analysis.matching_skills # <<>>
    /\ analysis.missing_skills # <<>>
    /\ \E extra \in ExtraSkills :
           LET more == get_skill_analysis(Append(resume_skills, extra), job_requirements)
           IN  /\ Len(more.matching_skills) > Len(analysis.matching_skills)
               /\ more.match_score > analysis.match_score

-----------------------------------------------------------------------------
(* Properties of single function calls, under SpecFunctions *)

\* The positions in text at which sub starts.
OccursAt(sub, text) ==
    { i \in 1..(Len(text) - Len(sub) + 1) : SubSeq(text, i, i + Len(sub) - 1) = sub }

\* The markers of a required skill.
Markers == {"required", "essential", "must have", "critical"}

\* The skill starts at some position behind a marker with no line break
\* between the end of the marker and the skill.
AfterMarker(skill_lower, text_lower) ==
    \E m \in Markers :
        \E j \in OccursAt(m, text_lower), i \in OccursAt(skill_lower, text_lower) :
            /\ i >= j + Len(m)
            /\ \A k \in (j + Len(m))..(i - 1) : SubSeq(text_lower, k, k) # "\n"

\* The score the ranking is to give a skill that cannot overlap itself: 10
\* for every occurrence, 20 for an occurrence that lies within the first 200
\* characters, 30 for an occurrence behind a marker.
ExpectedScore(skill, text) ==
    LET skill_lower == lower(skill)
        text_lower == lower(text)
        at == OccursAt(skill_lower, text_lower)
    IN  10 * Cardinality(at)
        + (IF \E i \in at : i + Len(skill_lower) - 1 <= 200 THEN 20 ELSE 0)
        + (IF AfterMarker(skill_lower, text_lower) THEN 30 ELSE 0)

\* The skills of a list of (skill, score) pairs that have the given score.
SkillsScored(pairs, score) ==
    LET hits == SelectSeq(pairs, LAMBDA p : p[2] = score)
    IN  [k \in 1..Len(hits) |-> hits[k][1]]

IsYears(level) ==
    /\ Len(level) > 6
    /\ SubSeq(level, Len(level) - 5, Len(level)) = " years"
    /\ isdigit(SubSeq(level, 1, Len(level) - 6))

\* A seniority word of the job text, in the case it has there: senior,
\* junior, experienced, or entry and mid joined to level by one character.
IsSeniorityLabel(level) ==
    LET l == lower(level)
    IN  \/ l \in {"senior", "junior", "experienced"}
        \/ Len(l) = 11 /\ SubSeq(l, 1, 5) = "entry" /\ SubSeq(l, 7, 11) = "level"
        \/ Len(l) = 9 /\ SubSeq(l, 1, 3) = "mid" /\ SubSeq(l, 5, 9) = "level"

\* The text has "<N> years experience" or "<N> years of experience" with,
\* or without, a plus sign behind the number.
NamesYearsOfExperience(text) == findall(exp_patterns[1], text) # <<>>

\* C22: the experience level is a normalized "<N> years" string, a seniority
\* label or "Not specified"; a text that matches the numeric years pattern
\* gives the digits of N followed by " years", also when the number has a
\* plus sign behind it.
C22_ExperienceLevelIsNormalized ==
    \A c \in 1..Len(calls) :
        calls[c].op = "_extract_experience_level" =>
            /\ \/ IsYears(calls[c].result)
               \/ IsSeniorityLabel(calls[c].result)
               \/ calls[c].result = "Not specified"
            /\ NamesYearsOfExperience(calls[c].text) => IsYears(calls[c].result)

\* The level of "5+ years of experience with AWS" is "5+": the number with
\* its plus sign and without " years".
C22_Witness ==
    /\ calls # <<>>
    /\ calls[1].op = "_extract_experience_level"
    /\ calls[1].text = "5+ years of experience with AWS"
    /\ calls[1].result = "5+"

\* The body of the first Summary/Objective/Profile/About heading of the
\* text, stripped; "" if the text has no such heading.
HeadingBody(text) ==
    LET sections == findall(summary_patterns[1], text)
    IN  IF sections = <<>> THEN "" ELSE strip(Head(sections))

\* The paragraphs of the text, the blocks between blank lines, that are
\* longer than 100 characters and mention "experience", stripped.
ExperienceParagraphs(text) ==
    LET paragraphs == split_str(text, "\n\n")
    IN  SelectSeq([k \in 1..Len(paragraphs) |-> strip(paragraphs[k])],
                  LAMBDA paragraph : /\ Len(paragraph) > 100
                                     /\ Contains("experience", lower(paragraph)))

\* C25: the summary is the body of a Summary/Objective/Profile/About heading
\* if that body is longer than 50 characters; otherwise the first paragraph
\* longer than 100 characters that mentions "experience"; otherwise "No
\* summary available".  No other text is returned.
C25_SummaryPrecedence ==
    \A c \in 1..Len(calls) :
        calls[c].op = "_extract_summary" =>
            calls[c].result =
                IF Len(HeadingBody(calls[c].text)) > 50
                THEN HeadingBody(calls[c].text)
                ELSE IF ExperienceParagraphs(calls[c].text) # <<>>
                THEN Head(ExperienceParagraphs(calls[c].text))
                ELSE "No summary available"

\* The summary of a resume with no heading and no paragraph that mentions
\* "experience" is its opening block, the name and address lines up to the
\* first blank line.
C25_Witness ==
    /\ calls # <<>>
    /\ calls[1].op = "_extract_summary"
    /\ HeadingBody(calls[1].text) = ""
    /\ ExperienceParagraphs(calls[1].text) = <<>>
    /\ calls[1].result = "Jane Doe, software developer based in Berlin, open to relocation\njane@example.org"

=============================================================================
